---- MODULE Spec2Model ----
(***************************************************************************)
(* jukoro.pg: the history-preserving entity storage (the INSTEAD OF        *)
(* triggers of the live view, executed by READ COMMITTED transactions) and *)
(* the schema synchronisation (syncdb) of jukoro/pg/storage.py.            *)
(***************************************************************************)
EXTENDS Integers, Sequences, FiniteSets, TLC

(***************************************************************************)
(* Bounds of the model.                                                    *)
(***************************************************************************)
MaxTime == 2
MaxEntities == 2
MaxRows == 3
MaxTxns == 3
MaxAttrs == 4

(***************************************************************************)
(* Program constants.                                                      *)
(***************************************************************************)
\* entity_end DEFAULT '2999-12-31 23:59:59.999+0'
FarFuture == 2999
\* CREATE SEQUENCE public.global_entity_id_seq START WITH 1
SeqStart == 1

Sessions == {1, 2}
Tabs == {"t", "u"}
NoStamp == -1
NoSession == 0

VARIABLES
    clock,      \* the server's wall clock
    ntx,        \* number of transactions started
    seqval,     \* last value of public.global_entity_id_seq
    idseq,      \* last value of each table's "id" serial
    rows,       \* the rows of the base tables, with their uncommitted changes
    tstate,     \* per session: idle, open, upd, del
    tnow,       \* per session: now() of the open transaction
    old,        \* per session: OLD rows of the running statement still to fire
    ndoc,       \* per session: the document of the running UPDATE
    createLog,  \* entity ids returned by the creates, in order
    hist,       \* per entity id: statements that acted on it
    registry,   \* storage._registry: the registered types, in order
    cat,        \* the catalog of the target schema
    last_sync,  \* arguments and result of the last syncdb
    applied,    \* the batch executed last on the current registry
    classes,    \* the entity classes the application has declared
    raised,     \* the exception the last call of the registry API raised
    counter,    \* attrs._counter: the ordinal the next Attr receives
    made,       \* the ordinals of the Attr objects, in construction order
    compared,   \* the last comparison of an Attr and what it gave
    ret,        \* the last call of the entity and query API: what it returned
    ring,       \* a LockRing: its _store, its _locks and its _ring generator
    pool,       \* a PgDbPool on that ring, its connections and transactions
    thread,     \* per thread: where it is in transaction() or in close()
    redis,      \* the Redis server: the lock key and the lists of the queues
    client      \* the RedisLock objects and the RedisQueue of the clients

histVars == <<clock, ntx, seqval, idseq, rows, tstate, tnow, old, ndoc,
              createLog, hist>>
declVars == <<classes, raised, counter, made, compared, ret>>
libVars == <<ring, pool, thread, redis, client>>
syncVars == <<registry, cat, last_sync, applied, classes, raised, counter,
              made, compared, ret, libVars>>
apiVars == <<registry, cat, last_sync, applied, classes, raised, counter,
             made, compared>>
vars == <<clock, ntx, seqval, idseq, rows, tstate, tnow, old, ndoc,
          createLog, hist, registry, cat, last_sync, applied, classes, raised,
          counter, made, compared, ret, libVars>>

(***************************************************************************)
(* Documents: the keys the triggers stamp.  The other keys of a document   *)
(* are replaced wholesale by an update and play no role here.              *)
(***************************************************************************)
EmptyDoc == [created |-> NoStamp, updated |-> NoStamp, deleted |-> NoStamp]

\* public.current_timestamp_to_iso8601(): CURRENT_TIMESTAMP is the start time
\* of the transaction, rendered with microseconds
current_timestamp_to_iso8601(s) == tnow[s]

\* public.jsonb_merge: the pairs of the second document replace those of the
\* first one
jsonb_merge(d1, d2) ==
    [k \in DOMAIN d1 |-> IF d2[k] # NoStamp THEN d2[k] ELSE d1[k]]

(***************************************************************************)
(* The base tables under READ COMMITTED.  A row carries its committed      *)
(* version, the session whose transaction inserted it (xmin, NoSession     *)
(* once committed) and, while a transaction holds its row lock, the        *)
(* uncommitted version (pee, pdoc).                                        *)
(***************************************************************************)
Visible(r, s) == r.xmin \in {NoSession, s}

\* the version of a row a statement of session s reads
Ver(r, s) ==
    [tab |-> r.tab, id |-> r.id, eid |-> r.eid, es |-> r.es,
     ee |-> IF r.lock = s THEN r.pee ELSE r.ee,
     doc |-> IF r.lock = s THEN r.pdoc ELSE r.doc]

\* the committed version of a row
Com(r) ==
    [tab |-> r.tab, id |-> r.id, eid |-> r.eid, es |-> r.es,
     ee |-> r.ee, doc |-> r.doc]

\* CREATE_VIEW: WHERE "entity_start" <= now() AND "entity_end" > now()
CREATE_VIEW(v, now) == v.es <= now /\ v.ee > now

\* the rows of table tab a statement of session s reads
TableRows(s, tab) ==
    {Ver(r, s) : r \in {x \in rows : x.tab = tab /\ Visible(x, s)}}

\* SELECT * FROM "<tab>__live" in the transaction of session s
LiveView(s, tab) == {v \in TableRows(s, tab) : CREATE_VIEW(v, tnow[s])}

\* the committed rows of table tab, and those live at instant t
BaseTable(tab) == {Com(r) : r \in {x \in rows : x.tab = tab /\ x.xmin = NoSession}}
LiveRowsAt(tab, t) == {v \in BaseTable(tab) : CREATE_VIEW(v, t)}

\* nextval('public.global_entity_id_seq'): INCREMENT BY 1
nextval(q) == q + 1

\* TRIGGER_INSERT: INSERT INTO "<tab>" ("doc") VALUES (merge(NEW.doc,
\* _created, _updated)); entity_id, entity_start and entity_end take their
\* column defaults
TRIGGER_INSERT(tab, s, newdoc) ==
    LET doc == jsonb_merge(newdoc,
                   [created |-> current_timestamp_to_iso8601(s),
                    updated |-> current_timestamp_to_iso8601(s),
                    deleted |-> NoStamp])
    IN [tab |-> tab, id |-> idseq[tab] + 1, eid |-> nextval(seqval),
        es |-> tnow[s], ee |-> FarFuture, doc |-> doc,
        xmin |-> s, lock |-> NoSession, pee |-> FarFuture, pdoc |-> doc]

\* UPDATE "<tab>" SET ... WHERE "id" = OLD.id, by session s: the row lock is
\* taken and the newest version of the row is changed
SetRow(r, s, ee, doc) ==
    IF r.xmin = s
    THEN [r EXCEPT !.ee = ee, !.doc = doc, !.pee = ee, !.pdoc = doc]
    ELSE [r EXCEPT !.lock = s, !.pee = ee, !.pdoc = doc]

\* the same without the change of "entity_end"
UpdateCloseLeavesOpen(r, s) == SetRow(r, s, Ver(r, s).ee, Ver(r, s).doc)

\* TRIGGER_UPDATE, first statement: "entity_end" = CURRENT_TIMESTAMP
UpdateClose(r, s) == SetRow(r, s, tnow[s], Ver(r, s).doc)

\* the same with the column default instead of NEW.entity_id
UpdateEntityIdDefault(new_entity_id, q) == nextval(q)

\* TRIGGER_UPDATE, second statement: the entity_id of the inserted row
UpdateEntityId(new_entity_id, q) == new_entity_id

\* TRIGGER_UPDATE, second statement: INSERT INTO "<tab>" ("entity_id", "doc")
\* VALUES (NEW.entity_id, merge(NEW.doc, _updated))
UpdateInsert(o, s, newdoc) ==
    LET doc == jsonb_merge(newdoc,
                   [created |-> NoStamp,
                    updated |-> current_timestamp_to_iso8601(s),
                    deleted |-> NoStamp])
    IN [tab |-> o.tab, id |-> idseq[o.tab] + 1,
        eid |-> UpdateEntityId(o.eid, seqval),
        es |-> tnow[s], ee |-> FarFuture, doc |-> doc,
        xmin |-> s, lock |-> NoSession, pee |-> FarFuture, pdoc |-> doc]

\* the same without the _deleted pair
DeleteCloseNoStamp(r, o, s) == SetRow(r, s, tnow[s], o.doc)

\* TRIGGER_DELETE: ("entity_end", "doc") = (CURRENT_TIMESTAMP,
\* merge(OLD.doc, _deleted)) WHERE "id" = OLD.id
DeleteClose(r, o, s) ==
    SetRow(r, s, tnow[s],
           jsonb_merge(o.doc, [created |-> NoStamp, updated |-> NoStamp,
                               deleted |-> current_timestamp_to_iso8601(s)]))

\* COMMIT of session s
CommitRow(r, s) ==
    IF r.lock = s
    THEN [r EXCEPT !.ee = r.pee, !.doc = r.pdoc, !.lock = NoSession]
    ELSE IF r.xmin = s THEN [r EXCEPT !.xmin = NoSession] ELSE r

(***************************************************************************)
(* Statements issued through the live view.  A transaction is the scope of *)
(* one PgTransaction; an autocommit cursor runs each statement as a        *)
(* transaction of its own.                                                 *)
(***************************************************************************)
InitHist ==
    /\ clock = 0
    /\ ntx = 0
    /\ seqval = SeqStart - 1
    /\ idseq = [tab \in Tabs |-> 0]
    /\ rows = {}
    /\ tstate = [s \in Sessions |-> "idle"]
    /\ tnow = [s \in Sessions |-> 0]
    /\ old = [s \in Sessions |-> {}]
    /\ ndoc = [s \in Sessions |-> EmptyDoc]
    /\ createLog = <<>>
    /\ hist = [e \in 1..MaxEntities |-> [upd |-> 0, del |-> 0]]

\* the documents a client sends for entity e: a fresh one, or the one it read
ClientDocs(s, tab, e) ==
    {EmptyDoc} \cup {v.doc : v \in {x \in LiveView(s, tab) : x.eid = e}}

\* PgTransaction._ensure_cursor and the first statement: the transaction
\* starts, dt after the start of the previous one, and fixes now()
Begin(s, dt) ==
    /\ tstate[s] = "idle"
    /\ clock + dt <= MaxTime
    /\ ntx < MaxTxns
    /\ clock' = clock + dt
    /\ ntx' = ntx + 1
    /\ tstate' = [tstate EXCEPT ![s] = "open"]
    /\ tnow' = [tnow EXCEPT ![s] = clock + dt]
    /\ UNCHANGED <<seqval, idseq, rows, old, ndoc, createLog, hist>>
    /\ UNCHANGED syncVars

\* the same, issued when no other transaction is open
BeginAlone(s, dt) ==
    /\ \A o \in Sessions : tstate[o] = "idle"
    /\ Begin(s, dt)

\* QueryViewBuilder.create: INSERT INTO "<tab>__live" ("doc") VALUES (%s)
\* RETURNING "entity_id","doc"
Insert(s, tab) ==
    /\ tstate[s] = "open"
    /\ seqval < MaxEntities
    /\ Cardinality(rows) < MaxRows
    /\ LET new == TRIGGER_INSERT(tab, s, EmptyDoc)
       IN /\ rows' = rows \cup {new}
          /\ createLog' = Append(createLog, new.eid)
    /\ seqval' = nextval(seqval)
    /\ idseq' = [idseq EXCEPT ![tab] = @ + 1]
    /\ UNCHANGED <<clock, ntx, tstate, tnow, old, ndoc, hist>>
    /\ UNCHANGED syncVars

\* the scan of UPDATE/DELETE ... WHERE "entity_id" = e on the live view: the
\* statement reads the view under its snapshot; the rows become the OLD rows
\* of the INSTEAD OF trigger
Scan(s, tab, e, op) ==
    LET found == {v \in LiveView(s, tab) : v.eid = e}
    IN /\ found # {}
       /\ old' = [old EXCEPT ![s] = found]
       /\ tstate' = [tstate EXCEPT ![s] = op]

\* QueryViewBuilder.update: UPDATE "<tab>__live" SET "doc" = d
\* WHERE "entity_id" = e
UpdateScan(s, tab, e, d) ==
    /\ tstate[s] = "open"
    /\ Scan(s, tab, e, "upd")
    /\ ndoc' = [ndoc EXCEPT ![s] = d]
    /\ UNCHANGED <<clock, ntx, seqval, idseq, rows, tnow, createLog, hist>>
    /\ UNCHANGED syncVars

\* the end of a trigger call of session s for the OLD row o
Fired(s, o) ==
    /\ old' = [old EXCEPT ![s] = @ \ {o}]
    /\ tstate' = [tstate EXCEPT ![s] = IF old[s] = {o} THEN "open" ELSE @]

\* TRIGGER_UPDATE for one OLD row; its UPDATE waits for the row lock
UpdateFire(s) ==
    /\ tstate[s] = "upd"
    /\ Cardinality(rows) < MaxRows
    /\ \E o \in old[s] :
         \E r \in {x \in rows : x.tab = o.tab /\ x.id = o.id} :
            /\ r.lock \in {NoSession, s}
            /\ rows' = (rows \ {r}) \cup
                          {UpdateClose(r, s), UpdateInsert(o, s, ndoc[s])}
            /\ idseq' = [idseq EXCEPT ![o.tab] = @ + 1]
            /\ hist' = [hist EXCEPT ![o.eid].upd = @ + 1]
            /\ Fired(s, o)
            /\ ndoc' = [ndoc EXCEPT ![s] = IF old[s] = {o} THEN EmptyDoc ELSE @]
    /\ UNCHANGED <<clock, ntx, seqval, tnow, createLog>>
    /\ UNCHANGED syncVars

\* QueryViewBuilder.delete: DELETE FROM "<tab>__live" WHERE "entity_id" = e
DeleteScan(s, tab, e) ==
    /\ tstate[s] = "open"
    /\ Scan(s, tab, e, "del")
    /\ UNCHANGED <<clock, ntx, seqval, idseq, rows, tnow, ndoc, createLog, hist>>
    /\ UNCHANGED syncVars

\* TRIGGER_DELETE for one OLD row; its UPDATE waits for the row lock
DeleteFire(s) ==
    /\ tstate[s] = "del"
    /\ \E o \in old[s] :
         \E r \in {x \in rows : x.tab = o.tab /\ x.id = o.id} :
            /\ r.lock \in {NoSession, s}
            /\ rows' = (rows \ {r}) \cup {DeleteClose(r, o, s)}
            /\ hist' = [hist EXCEPT ![o.eid].del = @ + 1]
            /\ Fired(s, o)
    /\ UNCHANGED <<clock, ntx, seqval, idseq, tnow, ndoc, createLog>>
    /\ UNCHANGED syncVars

\* PgTransaction.__exit__ (commit), or the commit of an autocommit statement
Commit(s) ==
    /\ tstate[s] = "open"
    /\ rows' = {CommitRow(r, s) : r \in rows}
    /\ tstate' = [tstate EXCEPT ![s] = "idle"]
    /\ tnow' = [tnow EXCEPT ![s] = 0]
    /\ UNCHANGED <<clock, ntx, seqval, idseq, old, ndoc, createLog, hist>>
    /\ UNCHANGED syncVars

Statement(s) ==
    \/ \E tab \in Tabs : Insert(s, tab)
    \/ \E tab \in Tabs, e \in 1..seqval :
          \E d \in ClientDocs(s, tab, e) : UpdateScan(s, tab, e, d)
    \/ UpdateFire(s)
    \/ \E tab \in Tabs, e \in 1..seqval : DeleteScan(s, tab, e)
    \/ DeleteFire(s)
    \/ Commit(s)

(***************************************************************************)
(* Schema synchronisation.  Names are strings, built and taken apart as    *)
(* the code does it.                                                       *)
(***************************************************************************)
SEQ == "global_entity_id_seq"
ET == "entity"
\* the schema named by the connection uri
SchemaName == "s"

\* str.startswith
startswith(s, p) == Len(s) >= Len(p) /\ SubSeq(s, 1, Len(p)) = p

\* str.find, 1-based; 0 when sep does not occur at or after i
RECURSIVE find(_, _, _)
find(s, sep, i) ==
    IF i + Len(sep) - 1 > Len(s) THEN 0
    ELSE IF SubSeq(s, i, i + Len(sep) - 1) = sep THEN i
    ELSE find(s, sep, i + 1)

\* str.split
RECURSIVE split(_, _)
split(s, sep) ==
    LET i == find(s, sep, 1)
    IN  IF i = 0 THEN <<s>>
        ELSE <<SubSeq(s, 1, i - 1)>> \o split(SubSeq(s, i + Len(sep), Len(s)), sep)

\* str.join
RECURSIVE join(_, _)
join(sep, parts) ==
    IF parts = <<>> THEN ""
    ELSE IF Len(parts) = 1 THEN parts[1]
    ELSE parts[1] \o sep \o join(sep, Tail(parts))

\* one SQL statement of a batch: what it does, to which object, on which
\* table or view
Sql(op, name, on) == [op |-> op, name |-> name, on |-> on]

\* INIT_SCHEMA without its CREATE TABLE "entity"
INIT_SCHEMA_NoEntity(schema) ==
    << Sql("CREATE SCHEMA", schema, ""),
       Sql("CREATE SEQUENCE", "public." \o SEQ, "") >>

\* the statements of INIT_SCHEMA
INIT_SCHEMA(schema) ==
    << Sql("CREATE SCHEMA", schema, ""),
       Sql("CREATE SEQUENCE", "public." \o SEQ, ""),
       Sql("CREATE FUNCTION", "public.jsonb_merge", ""),
       Sql("CREATE FUNCTION", "public.jsonb_merge_key_value_pairs", ""),
       Sql("CREATE FUNCTION", "public.current_timestamp_to_iso8601", ""),
       Sql("CREATE TABLE", ET, "") >>

\* CREATE_TABLE reduced to its CREATE TABLE statement
CREATE_TABLE_TableOnly(db_table) ==
    << Sql("CREATE TABLE", db_table, "") >>

\* the statements of CREATE_TABLE
CREATE_TABLE(db_table) ==
    << Sql("CREATE TABLE", db_table, ""),
       Sql("CREATE INDEX", "ju_idx__" \o db_table \o "__doc", db_table),
       Sql("CREATE INDEX", "ju_idx__" \o db_table \o "__entity_id", db_table) >>

DBViewName(name) == name \o "__live"

\* an attribute of an entity class; Attr defaults: db_index False,
\* db_not_null True
Attr(slug, db_index, db_not_null) ==
    [slug |-> slug, db_index |-> db_index, db_not_null |-> db_not_null]

\* the declared type of the values of an attribute
value_type == [a |-> "int", b |-> "unicode", c |-> "dict", k |-> "JuArrow"]

\* Attr.is_int, Attr.is_text, Attr.db_cast
is_int(slug) == value_type[slug] \in {"int", "JuArrow"}
is_text(slug) == value_type[slug] \in {"str", "unicode"}
db_cast(slug) == IF is_int(slug) THEN "BIGINT" ELSE "TEXT"

\* the entity classes of the application
T == [name |-> "T", db_table |-> "t", attrs |-> <<Attr("a", TRUE, TRUE), Attr("b", FALSE, TRUE)>>]
U == [name |-> "U", db_table |-> "u", attrs |-> <<Attr("c", FALSE, TRUE)>>]
Types == {T, U}

\* what Table yields per category: the name to look up and the SQL
CreateTableSql(t) ==
    [name |-> t.db_table, sql |-> CREATE_TABLE(t.db_table)]

CreateViewSql(t) ==
    [name |-> DBViewName(t.db_table),
     sql |-> <<Sql("CREATE VIEW", DBViewName(t.db_table), t.db_table)>>]

AbstractTrigger_name(t, suffix) ==
    "ju_before__" \o DBViewName(t.db_table) \o "__" \o suffix

AbstractTrigger(t, suffix) ==
    [name |-> AbstractTrigger_name(t, suffix),
     sql |-> << Sql("CREATE FUNCTION", AbstractTrigger_name(t, suffix), ""),
                Sql("CREATE TRIGGER", AbstractTrigger_name(t, suffix),
                    DBViewName(t.db_table)) >>]

Index_name(t, attr) ==
    "ju_idx__" \o t.db_table \o "__" \o attr.slug \o "_entity_start_entity_end"

Index(t, attr) ==
    [name |-> Index_name(t, attr),
     sql |-> <<Sql("CREATE INDEX", Index_name(t, attr), t.db_table)>>]

Constraint_name(t, attr) ==
    "ju_validate__" \o t.db_table \o "__" \o attr.slug

\* the checks of the three templates
CONSTRAINT_INT == <<"IS NOT NULL", "::BIGINT >= 0">>
CONSTRAINT_TEXT == <<"IS NOT NULL", "length > minlen">>
CONSTRAINT_NOT_NULL == <<"IS NOT NULL">>

\* Constraint.sql_tmpl
Constraint_sql_tmpl(attr) ==
    IF is_int(attr.slug) THEN CONSTRAINT_INT
    ELSE IF is_text(attr.slug) THEN CONSTRAINT_TEXT
    ELSE CONSTRAINT_NOT_NULL

Constraint(t, attr) ==
    [name |-> Constraint_name(t, attr),
     sql |-> <<Sql("ADD CONSTRAINT", Constraint_name(t, attr), t.db_table)>>,
     attr |-> attr.slug,
     checks |-> Constraint_sql_tmpl(attr)]

state_values == <<"tables", "views", "triggers", "indices", "constraints">>

Table_tables(t) == <<CreateTableSql(t)>>

Table_views(t) == <<CreateViewSql(t)>>

Table_triggers(t) ==
    << AbstractTrigger(t, "insert"), AbstractTrigger(t, "update"),
       AbstractTrigger(t, "delete") >>

Table_indices(t) ==
    LET ix == SelectSeq(t.attrs, LAMBDA a : a.db_index)
    IN  [i \in 1..Len(ix) |-> Index(t, ix[i])]

\* a table that declares a constraint for every attribute
Table_constraintsAll(t) ==
    [i \in 1..Len(t.attrs) |-> Constraint(t, t.attrs[i])]

Table_constraints(t) ==
    LET nn == SelectSeq(t.attrs, LAMBDA a : a.db_not_null)
    IN  [i \in 1..Len(nn) |-> Constraint(t, nn[i])]

\* Table.items, flattened: every declared object with its category
Table_items(t) ==
    LET of(name) ==
            CASE name = "tables" -> Table_tables(t)
              [] name = "views" -> Table_views(t)
              [] name = "triggers" -> Table_triggers(t)
              [] name = "indices" -> Table_indices(t)
              [] name = "constraints" -> Table_constraints(t)
        tag(name) ==
            [i \in 1..Len(of(name)) |->
                [cat |-> name, name |-> of(name)[i].name, sql |-> of(name)[i].sql]]
    IN  tag(state_values[1]) \o tag(state_values[2]) \o tag(state_values[3])
        \o tag(state_values[4]) \o tag(state_values[5])

(***************************************************************************)
(* The catalog of the database: the schema, and per category the objects   *)
(* with the table or view they belong to.                                  *)
(***************************************************************************)
Obj(name, on) == [name |-> name, on |-> on]

EmptyCat ==
    [schemas |-> {}, sequence |-> FALSE, functions |-> {}, tables |-> {},
     views |-> {}, triggers |-> {}, indices |-> {}, constraints |-> {}]

\* what "id" serial PRIMARY KEY and the NOT NULL columns of entity add to a
\* table: the primary key with its index, and the system's not-null checks
\* (named after object ids; the table name stands for the table's oid)
Implicit(tn) ==
    [indices |-> {Obj(tn \o "_pkey", tn)},
     constraints |-> {Obj(tn \o "_pkey", tn)} \cup
                     {Obj("243905_" \o tn \o "_" \o col \o "_not_null", tn) :
                        col \in {"1", "2", "5"}}]

\* one statement executed on the catalog
Exec(q, c) ==
    CASE q.op = "CREATE SCHEMA" -> [c EXCEPT !.schemas = @ \cup {q.name}]
      [] q.op = "CREATE SEQUENCE" -> [c EXCEPT !.sequence = TRUE]
      [] q.op = "CREATE FUNCTION" -> [c EXCEPT !.functions = @ \cup {q.name}]
      [] q.op = "CREATE TABLE" ->
            IF q.name \in c.tables THEN c
            ELSE [c EXCEPT !.tables = @ \cup {q.name},
                           !.indices = @ \cup Implicit(q.name).indices,
                           !.constraints = @ \cup Implicit(q.name).constraints]
      [] q.op = "CREATE INDEX" -> [c EXCEPT !.indices = @ \cup {Obj(q.name, q.on)}]
      [] q.op = "CREATE VIEW" -> [c EXCEPT !.views = @ \cup {Obj(q.name, q.on)}]
      [] q.op = "CREATE TRIGGER" ->
            [c EXCEPT !.triggers = @ \cup {Obj(q.name, q.on)}]
      [] q.op = "ADD CONSTRAINT" ->
            [c EXCEPT !.constraints = @ \cup {Obj(q.name, q.on)}]
      [] q.op = "DROP CONSTRAINT" ->
            [c EXCEPT !.constraints = @ \ {Obj(q.name, q.on)}]
      [] q.op = "DROP INDEX" ->
            [c EXCEPT !.indices = {o \in @ : o.name # q.name}]
      [] q.op = "DROP VIEW" ->
            [c EXCEPT !.views = {o \in @ : o.name # q.name},
                      !.triggers = {o \in @ : o.on # q.name}]
      [] q.op = "DROP TABLE" ->
            LET gone == {v.name : v \in {o \in c.views : o.on = q.name}}
            IN  [c EXCEPT !.tables = @ \ {q.name},
                          !.indices = {o \in @ : o.on # q.name},
                          !.constraints = {o \in @ : o.on # q.name},
                          !.views = {o \in @ : o.on # q.name},
                          !.triggers = {o \in @ : o.on \notin gone}]

\* cursor.execute(batch)
RECURSIVE execute(_, _)
execute(batch, c) ==
    IF batch = <<>> THEN c ELSE execute(Tail(batch), Exec(Head(batch), c))

\* DROP SCHEMA ... CASCADE; what lives in public stays
DROP_SCHEMA(c) ==
    [EmptyCat EXCEPT !.sequence = c.sequence,
                     !.functions = {f \in c.functions : startswith(f, "public.")}]

\* introspect.inspect: per category the set of names found in the schema
inspect(c) ==
    [schemas |-> c.schemas,
     sequences |-> {},
     tables |-> c.tables,
     views |-> {o.name : o \in c.views},
     triggers |-> {o.name : o \in c.triggers},
     indices |-> {o.name : o \in c.indices},
     constraints |-> {o.name : o \in c.constraints}]

\* a pop that removes nothing
StateValues_popKeeps(values, k) == values

\* StateValues.pop
StateValues_pop(values, k) == values \ {k}

\* _to_create: the loop over the declared objects of one table
RECURSIVE to_create_loop(_, _, _)
to_create_loop(items, state, out) ==
    IF items = <<>> THEN [sql |-> out, state |-> state]
    ELSE LET it == Head(items)
             current == state[it.cat]
         IN  IF it.name \notin current
             THEN to_create_loop(Tail(items), state, out \o it.sql)
             ELSE to_create_loop(Tail(items),
                    [state EXCEPT ![it.cat] = StateValues_pop(current, it.name)],
                    out)

_to_create(table, state) == to_create_loop(Table_items(table), state, <<>>)

\* _syncdb: the loop over tables()
RECURSIVE tables_loop(_, _, _)
tables_loop(tabs, state, out) ==
    IF tabs = <<>> THEN [sql |-> out, state |-> state]
    ELSE LET r == _to_create(Head(tabs), state)
         IN  tables_loop(Tail(tabs), r.state, out \o r.sql)

DROPS(name, it, tn) ==
    CASE name = "indices" -> Sql("DROP INDEX", it, "")
      [] name = "tables" -> Sql("DROP TABLE", it, "")
      [] name = "views" -> Sql("DROP VIEW", it, "")
      [] name = "constraints" -> Sql("DROP CONSTRAINT", it, tn)

\* the startswith('ju') filter applied to every category
to_drop_keptJuOnly(state, name) ==
    {it \in state[name] : startswith(it, "ju")}

\* the names of a category that _to_drop does not skip
to_drop_kept(state, name) ==
    {it \in state[name] :
        ~ (name \in {"indices", "constraints"} /\ ~ startswith(it, "ju"))}

\* StateValues.__iter__: a set yields its elements in an order of its own
RECURSIVE StateValues_iter(_)
StateValues_iter(values) ==
    IF values = {} THEN {<<>>}
    ELSE UNION {{<<x>> \o q : q \in StateValues_iter(values \ {x})} : x \in values}

\* the iteration orders _to_drop may meet, per category
to_drop_orders(state) ==
    [constraints : StateValues_iter(to_drop_kept(state, "constraints")),
     indices : StateValues_iter(to_drop_kept(state, "indices")),
     triggers : {<<>>},
     views : StateValues_iter(to_drop_kept(state, "views")),
     tables : StateValues_iter(to_drop_kept(state, "tables"))]

\* the table a constraint drop alters
to_drop_tn(it) ==
    LET parts == split(it, "__")
    IN  join("__", SubSeq(parts, 2, Len(parts) - 1))

\* a sequence left as it is
reversedNot(seq) == seq

\* reversed(): the sequence from its last element to its first
reversed(seq) == [i \in 1..Len(seq) |-> seq[Len(seq) + 1 - i]]

\* _to_drop, iterating each category in the order ord gives
_to_drop(state, ord) ==
    LET of(name) ==
            IF name = "triggers" THEN <<>>
            ELSE [i \in 1..Len(ord[name]) |->
                    DROPS(name, ord[name][i],
                          IF name = "constraints" THEN to_drop_tn(ord[name][i])
                          ELSE "")]
        names == reversed(state_values)
    IN  of(names[1]) \o of(names[2]) \o of(names[3]) \o of(names[4])
        \o of(names[5])

\* _syncdb up to CUT: the create batch and the state left for _to_drop
_syncdb(reg, c) ==
    LET state == inspect(c)
        schema_sql == IF SchemaName \notin state.schemas
                      THEN INIT_SCHEMA(SchemaName) ELSE <<>>
        cleared == [state EXCEPT !.schemas = {}, !.sequences = {},
                                 !.tables = StateValues_pop(@, ET)]
        r == tables_loop(reg, cleared, <<>>)
    IN  [sql |-> schema_sql \o r.sql, state |-> r.state]

\* the value syncdb returns, with its arguments
NoApply == [kind |-> "no", tables |-> {}]
NoSync ==
    [ran |-> FALSE, registry |-> <<>>, state |-> inspect(EmptyCat),
     create |-> <<>>, drop |-> <<>>, after |-> NoApply]

\* an object: an Attr with its ordinal, or something else with its value
Object(isAttr, v) == [isAttr |-> isAttr, v |-> v]

\* nothing was compared yet
NoCmp == [self |-> Object(FALSE, 0), other |-> Object(FALSE, 0),
          raises |-> "none", value |-> 0]

\* nothing was called yet
NoRet == [fn |-> "", args |-> <<>>, raises |-> "none", value |-> <<>>]

(***************************************************************************)
(* jukoro.structures.LockRing: a set of items, the set of the locked ones  *)
(* and a generator that goes round the unlocked ones.                      *)
(***************************************************************************)
\* the items pushed on a ring
MaxItems == 3
Items == 1..MaxItems

\* the generator self._ring: None, or suspended after it yielded the item
\* pos (0: not started) of a pass over a set of size items, or finished by
\* an exception
Generator(state, pos, size) == [state |-> state, pos |-> pos, size |-> size]
NoGenerator == Generator("None", 0, 0)

\* LockRing.__init__
LockRing == [store |-> {}, locks |-> {}, ring |-> NoGenerator]

\* the pool_size of the pool, and the most connections an exhausted pool
\* makes besides
PoolSize == 2
MaxAuto == 2
Conns == 1..(PoolSize + MaxAuto)
Threads == {1, 2}

\* PgDbPool.__init__: nothing is connected; conns tells which connections
\* were made and whether they are closed, made how many the warm-up made,
\* auto how many the exhausted pool made, txs the open transactions by
\* their connection, lock the thread that holds self._lock
PgDbPool ==
    [warmed_up |-> FALSE, closed |-> FALSE, conns |-> [c \in Conns |-> "none"],
     made |-> 0, auto |-> 0, txs |-> <<>>, lock |-> 0]

\* a thread that is not in a call of the pool
NoThread == [pc |-> "idle", conn |-> 0, flag |-> FALSE]

\* the RedisLock objects of one key, their ttl in seconds, and the longest
\* list of a queue
MaxLocks == 3
TTL == 2
MaxLen == 2
Locks == 1..MaxLocks

\* CONTROL_QUEUE, and RedisQueue.keys of a queue manager made with
\* queues=['a', 'b']: the control queue is appended to the watched ones
CONTROL_QUEUE == "qCtl"
Queues == <<"a", "b">>
RedisDb_key(name) == "app:" \o name
RedisQueue_keys ==
    LET queues == Append(Queues, CONTROL_QUEUE)
    IN  [i \in DOMAIN queues |-> RedisDb_key(queues[i])]
QueueValues == {"STOP", "x"}

\* the lock key does not exist
NoLock == [value |-> 0, ttl |-> 0]

\* RedisLock.__init__ and RedisDb.__init__: outside the with block, not
\* waiting, nothing acquired, the Lua script not registered
RedisLock == [pc |-> "out", with |-> FALSE, left |-> 0, held |-> FALSE, db |-> FALSE]

\* RedisQueue.__init__: consume() has not ended, stop() was not called
RedisQueue == [pc |-> "consume", stopped |-> FALSE]

InitLib ==
    /\ ring = LockRing
    /\ pool = PgDbPool
    /\ thread = [t \in Threads |-> NoThread]
    /\ redis = [lock |-> NoLock,
                lists |-> [k \in {RedisQueue_keys[i] : i \in DOMAIN RedisQueue_keys} |-> <<>>]]
    /\ client = [locks |-> [l \in Locks |-> RedisLock], queue |-> RedisQueue]

InitSync ==
    /\ InitLib
    /\ registry = <<>>
    /\ cat = EmptyCat
    /\ last_sync = NoSync
    /\ applied = NoApply
    /\ classes = {}
    /\ raised = "none"
    /\ counter = 0
    /\ made = <<>>
    /\ compared = NoCmp

registered == {registry[i].db_table : i \in DOMAIN registry}

\* a class has no db_table attribute: EntityMeta sets it for a non-empty
\* table name only, so the empty name stands for the missing attribute
NoAttr == ""

\* a register that stores the class whatever the registry holds
register_overwrites(entity_class) ==
    /\ entity_class.db_table # NoAttr
    /\ registry' = Append(SelectSeq(registry,
                              LAMBDA t : t.db_table # entity_class.db_table),
                          entity_class)
    /\ raised' = "none"
    /\ last_sync' = NoSync
    /\ applied' = NoApply
    /\ UNCHANGED <<cat, classes, counter, made, compared, ret>>
    /\ UNCHANGED <<histVars, libVars>>

\* storage.register, when it returns
register(entity_class) ==
    /\ entity_class.db_table # NoAttr
    /\ entity_class.db_table \notin registered
    /\ registry' = Append(registry, entity_class)
    /\ raised' = "none"
    /\ last_sync' = NoSync
    /\ applied' = NoApply
    /\ UNCHANGED <<cat, classes, counter, made, compared, ret>>
    /\ UNCHANGED <<histVars, libVars>>

\* storage.register, when it raises: entity_class.db_table fails, or the
\* table name is in the registry
register_raises(entity_class) ==
    /\ \/ /\ entity_class.db_table = NoAttr
          /\ raised' = "AttributeError"
       \/ /\ entity_class.db_table # NoAttr
          /\ entity_class.db_table \in registered
          /\ raised' = "AlreadyRegistered"
    /\ UNCHANGED <<registry, cat, last_sync, applied, classes, counter, made,
                   compared, ret>>
    /\ UNCHANGED <<histVars, libVars>>

\* storage.unregister, when it returns: _registry.pop(name, None)
unregister(entity_class) ==
    /\ entity_class.db_table # NoAttr
    /\ registry' = SelectSeq(registry,
                       LAMBDA t : t.db_table # entity_class.db_table)
    /\ raised' = "none"
    /\ last_sync' = IF registry' = registry THEN last_sync ELSE NoSync
    /\ applied' = IF registry' = registry THEN applied ELSE NoApply
    /\ UNCHANGED <<cat, classes, counter, made, compared, ret>>
    /\ UNCHANGED <<histVars, libVars>>

\* storage.unregister, when it raises: entity_class.db_table fails
unregister_raises(entity_class) ==
    /\ entity_class.db_table = NoAttr
    /\ raised' = "AttributeError"
    /\ UNCHANGED <<registry, cat, last_sync, applied, classes, counter, made,
                   compared, ret>>
    /\ UNCHANGED <<histVars, libVars>>

\* storage.is_registered
is_registered(entity_class) ==
    entity_class.db_table # NoAttr /\ entity_class.db_table \in registered

\* storage.tables: the registered classes, in the order of the registry
tables == registry

(***************************************************************************)
(* Class statements: the body constructs the Attr members, then            *)
(* EntityMeta.__new__ builds the class and registers it.                   *)
(***************************************************************************)
\* a class statement: its name, its base ("" for AbstractEntity), the
\* db_table of its body (tn_given FALSE: absent or None), skip_registry, its
\* other members and its Attr members in the order of the body
ClassStmt(name, base, tn_given, db_table, skip_registry, members, attrs) ==
    [name |-> name, base |-> base, tn_given |-> tn_given, db_table |-> db_table,
     skip_registry |-> skip_registry, members |-> members, attrs |-> attrs]

Reserved == {"attrs", "_created", "_updated", "_deleted"}

\* the class statements of the application
Decls ==
    { ClassStmt("A", "", FALSE, "", FALSE, {}, <<>>),
      ClassStmt("T", "", TRUE, "t", FALSE, {}, T.attrs),
      ClassStmt("V", "", TRUE, "t", FALSE, {}, <<>>),
      ClassStmt("C", "", TRUE, "c", TRUE, {}, <<>>),
      ClassStmt("S", "", TRUE, "t", TRUE, {}, <<>>),
      ClassStmt("K", "T", FALSE, "", FALSE, {}, <<Attr("k", FALSE, TRUE)>>),
      ClassStmt("O", "T", FALSE, "", FALSE, {}, <<Attr("a", FALSE, FALSE)>>),
      ClassStmt("R", "", TRUE, "r", FALSE, {}, <<Attr("_created", FALSE, TRUE)>>),
      ClassStmt("E", "", TRUE, ET, FALSE, {}, <<>>) }
    \cup { ClassStmt("M", "", TRUE, "m", FALSE, {m}, <<>>) : m \in Reserved }

\* Attr.__init__ and AttrDescr: the attribute, its slug and its ordinal
AttrDescr(a, idx) ==
    [slug |-> a.slug, db_index |-> a.db_index, db_not_null |-> a.db_not_null,
     idx |-> idx]

\* the keys of the class dictionary besides db_table and skip_registry
Keys(d) == d.members \cup {d.attrs[i].slug : i \in DOMAIN d.attrs}

\* the class a class statement names as its base
BaseClass(d) == CHOOSE k \in classes : k.name = d.base

\* the attributes of the bases
_slugs(d) == IF d.base = "" THEN <<>> ELSE BaseClass(d).attrs

\* a metaclass that accepts the table name "entity"
Meta_raisesNoEntity(d) ==
    \/ "attrs" \in Keys(d)
    \/ {"_created", "_updated", "_deleted"} \cap Keys(d) # {}

\* EntityMeta.__new__ raises AttributeError before it builds the class
Meta_raises(d) ==
    \/ "attrs" \in Keys(d)
    \/ {"_created", "_updated", "_deleted"} \cap Keys(d) # {}
    \/ (d.tn_given /\ d.db_table # "" /\ d.db_table = ET)

\* a class that registers whatever skip_registry says
Meta_registersAlways(d) == d.tn_given

\* EntityMeta.__new__ calls storage.register for the new class
Meta_registers(d) == d.tn_given /\ ~ d.skip_registry

\* an iteration in the order the slugs were collected
AttrsDescr_getUnsorted(slugs) == slugs

\* AttrsDescr.__get__ on the class: the slugs sorted by the ordinal of their
\* attribute, each yielded as the class's descriptor
AttrsDescr_get(slugs) == SortSeq(slugs, LAMBDA x, y : x.idx < y.idx)

\* the class EntityMeta.__new__ builds: db_table is set for a non-empty table
\* name and is inherited otherwise; attrs holds every own or inherited slug
\* once and iterates in the order of the ordinals
Meta_class(d) ==
    LET own == [i \in DOMAIN d.attrs |-> AttrDescr(d.attrs[i], counter + i - 1)]
        ownSlugs == {own[i].slug : i \in DOMAIN own}
        inherited == SelectSeq(_slugs(d), LAMBDA a : a.slug \notin ownSlugs)
    IN  [name |-> d.name,
         db_table |-> IF d.tn_given /\ d.db_table # "" THEN d.db_table
                      ELSE IF d.base = "" THEN NoAttr
                      ELSE BaseClass(d).db_table,
         attrs |-> AttrsDescr_get(own \o inherited)]

\* a class statement
Declare(d) ==
    /\ d.name \notin {k.name : k \in classes}
    /\ d.base = "" \/ \E k \in classes : k.name = d.base
    /\ counter + Len(d.attrs) <= MaxAttrs
    /\ counter' = counter + Len(d.attrs)
    /\ made' = made \o [i \in DOMAIN d.attrs |-> counter + i - 1]
    /\ LET klass == Meta_class(d)
       IN  IF Meta_raises(d)
           THEN /\ raised' = "AttributeError"
                /\ UNCHANGED <<registry, classes>>
           ELSE IF Meta_registers(d)
           THEN IF klass.db_table = NoAttr
                THEN /\ raised' = "AttributeError"
                     /\ UNCHANGED <<registry, classes>>
                ELSE IF klass.db_table \in registered
                THEN /\ raised' = "AlreadyRegistered"
                     /\ UNCHANGED <<registry, classes>>
                ELSE /\ raised' = "none"
                     /\ registry' = Append(registry, klass)
                     /\ classes' = classes \cup {klass}
           ELSE /\ raised' = "none"
                /\ classes' = classes \cup {klass}
                /\ UNCHANGED registry
    /\ last_sync' = IF registry' = registry THEN last_sync ELSE NoSync
    /\ applied' = IF registry' = registry THEN applied ELSE NoApply
    /\ UNCHANGED <<cat, compared, ret>>
    /\ UNCHANGED <<histVars, libVars>>

\* pg.Attr(...) outside a class statement
NewAttr ==
    /\ counter < MaxAttrs
    /\ counter' = counter + 1
    /\ made' = Append(made, counter)
    /\ UNCHANGED <<registry, cat, last_sync, applied, classes, raised, compared,
                   ret>>
    /\ UNCHANGED <<histVars, libVars>>

\* what Attr objects are compared with besides Attr objects
NonAttrs == {Object(FALSE, 0), Object(FALSE, 4)}

\* the Attr objects constructed so far
Attrs == {Object(TRUE, made[i]) : i \in DOMAIN made}

\* a comparison that takes the other object's value whatever it is
Attr__cmp__NoRaise(self, other) == [raises |-> "none", value |-> self.v - other.v]

\* Attr.__cmp__
Attr__cmp__(self, other) ==
    IF other.isAttr
    THEN [raises |-> "none", value |-> self.v - other.v]
    ELSE [raises |-> "RuntimeError", value |-> 0]

\* self < other, self == other, self > other: the interpreter calls __cmp__
Compare(self, other) ==
    /\ compared' = [self |-> self, other |-> other,
                    raises |-> Attr__cmp__(self, other).raises,
                    value |-> Attr__cmp__(self, other).value]
    /\ UNCHANGED <<registry, cat, last_sync, applied, classes, raised, counter,
                   made, ret>>
    /\ UNCHANGED <<histVars, libVars>>

(***************************************************************************)
(* pg.Attr: the keyword options of an attribute.                          *)
(***************************************************************************)
\* the options Attr.__init__ pops
KwKnown == {"db_index", "value_type", "db_not_null", "title", "maxlen",
            "minlen", "wrapper"}

\* the option names and values the callers pass
KwNames == {"db_index", "db_not_null", "minlen", "slug"}
KwVals == {0, 1, -1}
Kwargs == UNION {[K -> KwVals] : K \in SUBSET KwNames}

\* kwargs.pop(name, default)
kwargs_pop(kwargs, name, default) ==
    IF name \in DOMAIN kwargs THEN kwargs[name] ELSE default

\* Attr.__init__: every known option is popped with its default, what is
\* left in kwargs is not looked at, the ordinal is taken from the counter
Attr__init__(kwargs) ==
    /\ counter < MaxAttrs
    /\ ret' = [fn |-> "Attr", args |-> kwargs, raises |-> "none",
               value |-> [db_index |-> kwargs_pop(kwargs, "db_index", 0),
                          db_not_null |-> kwargs_pop(kwargs, "db_not_null", 1),
                          maxlen |-> kwargs_pop(kwargs, "maxlen", 0),
                          minlen |-> kwargs_pop(kwargs, "minlen", 0),
                          idx |-> counter]]
    /\ counter' = counter + 1
    /\ made' = Append(made, counter)
    /\ UNCHANGED <<registry, cat, last_sync, applied, classes, raised, compared>>
    /\ UNCHANGED <<histVars, libVars>>

(***************************************************************************)
(* Entity instances: AbstractEntity(entity_id, doc).                       *)
(***************************************************************************)
\* a Python value: its type and what tells it from the others of the type
\* (the number, the code of the string, the instant of the JuArrow)
Val(kind, v) == [kind |-> kind, v |-> v]
None == Val("NoneType", 0)
PyInt(n) == Val("int", n)

\* the values of the attributes: a number, a string, an instant
DocVals == {PyInt(1), Val("unicode", 1), Val("JuArrow", 1)}
DocKeys == {"a", "b", "k"}
Docs ==
    {d \in UNION {[K -> DocVals] : K \in SUBSET DocKeys} :
        "b" \in DOMAIN d => d["b"] = PyInt(1)}

\* the entity classes that are instantiated: T and its subclass K
EntityTypes == {"T", "K"}

\* the class statement of an entity class
StmtOf(name) == CHOOSE d \in Decls : d.name = name

\* the classes a class is a subclass of, itself included
RECURSIVE Mro(_)
Mro(name) ==
    IF name \notin EntityTypes THEN {name}
    ELSE IF StmtOf(name).base = "" THEN {name}
    ELSE {name} \cup Mro(StmtOf(name).base)

\* klass.attrs: the slugs the class declares or inherits
RECURSIVE attrs(_)
attrs(name) ==
    LET d == StmtOf(name)
        own == {d.attrs[i].slug : i \in DOMAIN d.attrs}
    IN  IF d.base = "" THEN own ELSE own \cup attrs(d.base)

\* AbstractEntity.__init__; a value that is no entity has the type "int"
Instance(type, entity_id, doc) ==
    [type |-> type, entity_id |-> entity_id, doc |-> doc]

Instances ==
    {Instance(t, id, doc) : t \in EntityTypes, id \in {None, PyInt(1)}, doc \in Docs}

\* what an instance is compared with besides instances
NonEntities == {Instance("int", PyInt(1), <<>>)}

isinstance(obj, klass) == klass \in Mro(obj.type)

\* AttrDescr.__get__ on an instance: instance.doc.get(slug)
getattr(instance, slug) ==
    IF slug \in DOMAIN instance.doc THEN instance.doc[slug] ELSE None

\* an equality that looks at the entity_id only
AbstractEntity__eq__IdOnly(self, other) ==
    IF isinstance(other, self.type)
    THEN [raises |-> "none", value |-> self.entity_id = other.entity_id]
    ELSE [raises |-> "RuntimeError", value |-> FALSE]

\* AbstractEntity.__eq__
AbstractEntity__eq__(self, other) ==
    IF isinstance(other, self.type)
    THEN [raises |-> "none",
          value |-> /\ self.entity_id = other.entity_id
                    /\ \A x \in attrs(self.type) :
                          getattr(self, x) = getattr(other, x)]
    ELSE [raises |-> "RuntimeError", value |-> FALSE]

\* AbstractEntity.__ne__
AbstractEntity__ne__(self, other) ==
    IF isinstance(other, self.type)
    THEN [raises |-> "none",
          value |-> \/ self.entity_id # other.entity_id
                    \/ \E x \in attrs(self.type) :
                          getattr(self, x) # getattr(other, x)]
    ELSE [raises |-> "RuntimeError", value |-> FALSE]

(***************************************************************************)
(* jukoro.json: what dumps writes for a value and what loads reads back.   *)
(***************************************************************************)
Json(type, v) == [json |-> type, v |-> v]

\* JuArrow.json_val: isoformat() of the instant, a string that is none of
\* the strings of DocVals
isoformat(t) == 100 + t

\* json.dumps with JSONEncoder: an object that has json_val is written as
\* what json_val returns
dumps(val) ==
    CASE val.kind = "NoneType" -> Json("null", 0)
      [] val.kind = "int" -> Json("number", val.v)
      [] val.kind = "unicode" -> Json("string", val.v)
      [] val.kind = "JuArrow" -> Json("string", isoformat(val.v))

\* json.loads with JSONDecoder
loads(j) ==
    CASE j.json = "null" -> None
      [] j.json = "number" -> PyInt(j.v)
      [] j.json = "string" -> Val("unicode", j.v)

\* AbstractEntity.serialize
serialize(self) ==
    [entity_id |-> dumps(self.entity_id),
     doc |-> [k \in DOMAIN self.doc |-> dumps(self.doc[k])]]

\* AbstractEntity.deserialize
deserialize(cls, value) ==
    Instance(cls, loads(value.entity_id),
             [k \in DOMAIN value.doc |-> loads(value.doc[k])])

\* a call of a function of the API with its arguments, before it returns
Call(fn, args) == [fn |-> fn, args |-> args, raises |-> "pending", value |-> <<>>]

Pending(fn) == ret.fn = fn /\ ret.raises = "pending"

\* the call returns or raises; it changes nothing else
Returns(r) ==
    /\ ret' = [ret EXCEPT !.raises = r.raises, !.value = r.value]
    /\ UNCHANGED <<registry, cat, last_sync, applied, classes, raised, counter,
                   made, compared>>
    /\ UNCHANGED <<histVars, libVars>>

\* self == other
Eq ==
    /\ Pending("__eq__")
    /\ Returns(AbstractEntity__eq__(ret.args[1], ret.args[2]))

(***************************************************************************)
(* save: the cursor is the environment, it returns the rows of the         *)
(* statement (RETURNING "entity_id", "doc").                               *)
(***************************************************************************)
Row(entity_id, doc) == [entity_id |-> entity_id, doc |-> doc]

\* what the cursor returns to save(self): the row of the INSERT; the row of
\* the UPDATE, or nothing when no live row has the entity_id
SaveRows(self) ==
    LET docs == {self.doc, [a |-> PyInt(1), b |-> PyInt(1)]}
    IN  IF self.entity_id = None
        THEN {<<Row(id, d)>> : id \in {PyInt(1), PyInt(2)}, d \in docs}
        ELSE {<<>>} \cup {<<Row(self.entity_id, d)>> : d \in docs}

\* QueryViewBuilder.create and QueryViewBuilder.update for one entity
create(entity) == [sql |-> "INSERT", params |-> <<entity.doc>>]
update(entity) == [sql |-> "UPDATE", params |-> <<entity.entity_id, entity.doc>>]

\* PgResult.get: the first row, or DoesNotExist
get(fetched) ==
    IF fetched = <<>> THEN [raises |-> "DoesNotExist", row |-> Row(None, <<>>)]
    ELSE [raises |-> "none", row |-> fetched[1]]

\* a save that stores the returned row in the instance it was called on
AbstractEntity_saveInPlace(self, fetched) ==
    LET q == IF self.entity_id = None THEN create(self) ELSE update(self)
        res == get(fetched)
        saved == Instance(self.type, res.row.entity_id, res.row.doc)
    IN  [raises |-> res.raises,
         value |-> [query |-> q,
                    self |-> IF res.raises = "none" THEN saved ELSE self,
                    result |-> saved,
                    is_self |-> TRUE]]

\* AbstractEntity.save: the query, the instance afterwards, and the instance
\* klass(**res) it returns
AbstractEntity_save(self, fetched) ==
    LET q == IF self.entity_id = None THEN create(self) ELSE update(self)
        res == get(fetched)
    IN  [raises |-> res.raises,
         value |-> [query |-> q,
                    self |-> self,
                    result |-> Instance(self.type, res.row.entity_id, res.row.doc),
                    is_self |-> FALSE]]

\* self.save(cursor)
Save ==
    /\ Pending("save")
    /\ Returns(AbstractEntity_save(ret.args[1], ret.args[2]))

\* type(e).deserialize(e.serialize())
RoundTrip ==
    /\ Pending("deserialize")
    /\ Returns([raises |-> "none",
                value |-> deserialize(ret.args[1].type, serialize(ret.args[1]))])

\* self != other
Ne ==
    /\ Pending("__ne__")
    /\ Returns(AbstractEntity__ne__(ret.args[1], ret.args[2]))

(***************************************************************************)
(* QueryViewBuilder: the queries for the live view and their parameters.   *)
(***************************************************************************)
\* the longest argument list of a builder call
MaxArgs == 3

\* bool(value): None and 0 are false
bool(val) == ~ (val.kind = "NoneType" \/ (val.kind = "int" /\ val.v = 0))

\* a Python tuple that is one parameter of a query
Tuple(seq) == Val("tuple", seq)

\* the ids by_id is called with and the entities delete is called with;
\* None among the entities is the value None
QIds == {None, PyInt(0), PyInt(1), PyInt(2)}
NoEntity == Instance("NoneType", None, <<>>)
QEntities == {NoEntity} \cup {Instance("T", id, <<>>) : id \in {None, PyInt(1), PyInt(2)}}

\* the argument lists of at most MaxArgs members of a set
Args(S) == UNION {[1..n -> S] : n \in 0..MaxArgs}

\* the parts of a statement: the view it works on, its WHERE clause and what
\* follows it
Query(verb, target, where, tail, params) ==
    [q |-> [verb |-> verb, target |-> target, where |-> where, tail |-> tail],
     params |-> params]
NoQuery == Query("", "", "", "", <<>>)

\* a builder that passes the ids as they come, one parameter per id
QueryViewBuilder_by_idFlat(target, ids) ==
    IF Len(ids) = 0 \/ \E i \in DOMAIN ids : ~ bool(ids[i])
    THEN [raises |-> "ValueError", value |-> NoQuery]
    ELSE LET op == IF Len(ids) = 1 THEN "=" ELSE "IN"
         IN  [raises |-> "none",
              value |-> Query("SELECT", target,
                              "WHERE \"entity_id\" " \o op \o " %s",
                              " ORDER BY \"entity_id\" ASC;", ids)]

\* QueryViewBuilder.by_id
QueryViewBuilder_by_id(target, ids) ==
    IF Len(ids) = 0 \/ \E i \in DOMAIN ids : ~ bool(ids[i])
    THEN [raises |-> "ValueError", value |-> NoQuery]
    ELSE LET op == IF Len(ids) = 1 THEN "=" ELSE "IN"
             params == IF Len(ids) = 1 THEN ids ELSE <<Tuple(ids)>>
         IN  [raises |-> "none",
              value |-> Query("SELECT", target,
                              "WHERE \"entity_id\" " \o op \o " %s",
                              " ORDER BY \"entity_id\" ASC;", params)]

\* filter(None, entities): the arguments that are true
filter(entities) == SelectSeq(entities, LAMBDA x : x.type # "NoneType")

\* a builder that takes the entities as they come
QueryViewBuilder_deleteAny(target, entities) ==
    LET es == filter(entities)
        ids == [i \in DOMAIN es |-> es[i].entity_id]
    IN  [raises |-> "none",
         value |-> Query("DELETE", target,
                         "WHERE \"entity_id\" " \o
                             (IF Len(es) = 1 THEN "=" ELSE "IN") \o " %s", ";",
                         IF Len(es) > 1 THEN <<Tuple(ids)>> ELSE ids)]

\* QueryViewBuilder.delete
QueryViewBuilder_delete(target, entities) ==
    LET es == filter(entities)
    IN  IF Len(es) = 0 \/ \E i \in DOMAIN es : ~ bool(es[i].entity_id)
        THEN [raises |-> "ValueError", value |-> NoQuery]
        ELSE LET op == IF Len(es) = 1 THEN "=" ELSE "IN"
                 ids == [i \in DOMAIN es |-> es[i].entity_id]
                 params == IF Len(es) > 1 THEN <<Tuple(ids)>> ELSE ids
             IN  [raises |-> "none",
                  value |-> Query("DELETE", target,
                                  "WHERE \"entity_id\" " \o op \o " %s", ";",
                                  params)]

OPS == [eq |-> "=", ne |-> "!=", in |-> "IN", lt |-> "<", gt |-> ">",
        lte |-> "<=", gte |-> ">="]

\* the longest list of conditions and the longest list of triplets
MaxConds == 2
MaxTriplets == 2

\* a condition of select: a dict, or a sequence of triplets
Triplet(attr, op, value) == [attr |-> attr, op |-> op, value |-> value]
Cond(kind, dict, triplets) == [kind |-> kind, dict |-> dict, triplets |-> triplets]

\* the triplets select is called with: on declared attributes with known
\* operators, with an unknown operator, on an undeclared attribute
Triplets ==
    {Triplet("a", "lte", PyInt(1)), Triplet("b", "ne", PyInt(2)),
     Triplet("a", "xx", PyInt(1)), Triplet("zz", "eq", PyInt(1))}

Conds ==
    {Cond("dict", Val("dict", d), <<>>) : d \in {[a |-> PyInt(1)], [b |-> PyInt(2)]}}
    \cup {Cond("tuple", None, ts) : ts \in UNION {[1..n -> Triplets] : n \in 0..MaxTriplets}}

\* the keyword arguments of select besides order_by: none, or a limit and
\* an offset
SelectKwargs == {[K \in {} |-> PyInt(7)], [K \in {"limit", "offset"} |-> PyInt(7)]}

\* _transform_op
_transform_op(op) ==
    IF op \in DOMAIN OPS THEN [raises |-> "none", value |-> OPS[op]]
    ELSE [raises |-> "ValueError", value |-> ""]

\* one pass of the inner loop: the operator is transformed, then the
\* attribute is looked up on the class
_transform_triplet(klass, t) ==
    IF _transform_op(t.op).raises # "none"
    THEN [raises |-> "ValueError", value |-> <<>>]
    ELSE IF t.attr \notin attrs(klass)
    THEN [raises |-> "AttributeError", value |-> <<>>]
    ELSE [raises |-> "none",
          value |-> [attr |-> t.attr, cast |-> db_cast(t.attr),
                     op |-> _transform_op(t.op).value]]

\* the triplets of the conditions in the order the loops visit them
RECURSIVE Visited(_)
Visited(conds) ==
    IF conds = <<>> THEN <<>>
    ELSE Head(conds).triplets \o Visited(Tail(conds))

\* the exception of the first triplet that raises one
RECURSIVE FirstRaised(_, _)
FirstRaised(klass, ts) ==
    IF ts = <<>> THEN "none"
    ELSE IF _transform_triplet(klass, Head(ts)).raises # "none"
    THEN _transform_triplet(klass, Head(ts)).raises
    ELSE FirstRaised(klass, Tail(ts))

\* the parameters the conditions append, in order
RECURSIVE CondParams(_)
CondParams(conds) ==
    IF conds = <<>> THEN <<>>
    ELSE LET cond == Head(conds)
             own == IF cond.kind = "dict" THEN <<cond.dict>>
                    ELSE [i \in DOMAIN cond.triplets |-> cond.triplets[i].value]
         IN  own \o CondParams(Tail(conds))

\* the placeholder of one condition: ("doc" @> %s), or the comparisons of
\* its triplets joined by AND in parentheses
Placeholder(klass, cond) ==
    IF cond.kind = "dict" THEN [join |-> "@>", block |-> <<>>]
    ELSE [join |-> "AND",
          block |-> [i \in DOMAIN cond.triplets |->
                        _transform_triplet(klass, cond.triplets[i]).value]]

\* a transformation that joins the placeholders of the conditions by AND
_transform_conditionsAnd(klass, conds) ==
    IF conds = <<>> THEN [raises |-> "none", where |-> [join |-> "", groups |-> <<>>],
                          params |-> <<>>]
    ELSE IF FirstRaised(klass, Visited(conds)) # "none"
    THEN [raises |-> FirstRaised(klass, Visited(conds)),
          where |-> [join |-> "", groups |-> <<>>], params |-> <<>>]
    ELSE [raises |-> "none",
          where |-> [join |-> "AND",
                     groups |-> [i \in DOMAIN conds |-> Placeholder(klass, conds[i])]],
          params |-> CondParams(conds)]

\* _transform_conditions: ' WHERE ' and the placeholders joined by OR
_transform_conditions(klass, conds) ==
    IF conds = <<>> THEN [raises |-> "none", where |-> [join |-> "", groups |-> <<>>],
                          params |-> <<>>]
    ELSE IF FirstRaised(klass, Visited(conds)) # "none"
    THEN [raises |-> FirstRaised(klass, Visited(conds)),
          where |-> [join |-> "", groups |-> <<>>], params |-> <<>>]
    ELSE [raises |-> "none",
          where |-> [join |-> "OR",
                     groups |-> [i \in DOMAIN conds |-> Placeholder(klass, conds[i])]],
          params |-> CondParams(conds)]

\* QueryViewBuilder.select without order_by: the limit and the offset are
\* the parameters after those of the conditions
QueryViewBuilder_select(target, klass, conds, kwargs) ==
    LET w == _transform_conditions(klass, conds)
        limit == IF "limit" \in DOMAIN kwargs THEN <<kwargs["limit"]>> ELSE <<>>
        offset == IF "offset" \in DOMAIN kwargs THEN <<kwargs["offset"]>> ELSE <<>>
    IN  IF w.raises # "none" THEN [raises |-> w.raises, value |-> NoQuery]
        ELSE [raises |-> "none",
              value |-> Query("SELECT", target, w.where,
                              [limit |-> limit # <<>>, offset |-> offset # <<>>],
                              w.params \o limit \o offset)]

\* what reaches the cursor after the builder was called: nothing when the
\* builder raised
cursor_execute(built) ==
    [raises |-> built.raises,
     value |-> [executed |-> IF built.raises = "none" THEN <<built.value>> ELSE <<>>]]

\* AbstractEntity.by_id up to the call of the cursor
AbstractEntity_by_id_execute(cls, entity_id) ==
    cursor_execute(QueryViewBuilder_by_id(DBViewName(StmtOf(cls).db_table),
                                          <<entity_id>>))

\* AbstractEntity.delete
AbstractEntity_delete(self) ==
    cursor_execute(QueryViewBuilder_delete(DBViewName(StmtOf(self.type).db_table),
                                           <<self>>))

(***************************************************************************)
(* LockRing.push, pop and next; the iteration of a set goes by the hash of *)
(* its items, here in ascending order.                                     *)
(***************************************************************************)
\* what a call of the ring gives: the exception, the value and the ring
RingResult(raises, value, r) == [raises |-> raises, value |-> value, ring |-> r]

\* LockRing.push: a locked item is unlocked, and the generator is dropped
\* when every item was locked
LockRing_push(r, item) ==
    LET store == r.store \cup {item}
    IN  IF item \in r.locks
        THEN RingResult("none", <<TRUE>>,
                 [store |-> store, locks |-> r.locks \ {item},
                  ring |-> IF Cardinality(r.locks) = Cardinality(store)
                           THEN NoGenerator ELSE r.ring])
        ELSE RingResult("none", <<>>, [r EXCEPT !.store = store])

\* LockRing.pop of the item set.pop() takes
LockRing_pop(r, item) ==
    IF r.store = {} THEN RingResult("IndexError", <<>>, r)
    ELSE RingResult("none", <<item>>,
             [store |-> r.store \ {item}, locks |-> r.locks \ {item},
              ring |-> NoGenerator])

\* the item the generator yields next: the first unlocked one after pos in
\* the pass, or the first unlocked one of the next pass
_iter_yield(r, pos) ==
    LET free == r.store \ r.locks
        rest == {i \in free : i > pos}
    IN  IF rest # {} THEN CHOOSE i \in rest : \A j \in rest : i <= j
        ELSE CHOOSE i \in free : \A j \in free : i <= j

\* next() of the generator of LockRing._iter, which is not None: a finished
\* generator stops, one whose set changed size fails, one that finds every
\* item locked raises and finishes, else the next unlocked item is yielded
generator_next(r) ==
    LET dead == [r EXCEPT !.ring = Generator("dead", 0, 0)]
    IN  IF r.ring.state = "dead" \/ r.store = {}
        THEN RingResult("StopIteration", <<>>, dead)
        ELSE IF r.ring.pos > 0 /\ r.ring.size # Cardinality(r.store)
        THEN RingResult("RuntimeError", <<>>, dead)
        ELSE IF Cardinality(r.store) = Cardinality(r.locks)
        THEN RingResult("IndexError", <<>>, dead)
        ELSE LET item == _iter_yield(r, r.ring.pos)
             IN  RingResult("none", <<item>>,
                            [r EXCEPT !.ring = Generator("live", item, Cardinality(r.store))])

\* a ring whose lock() locks nothing
LockRing_lockNot(r, item) == r

\* LockRing.lock
LockRing_lock(r, item) == [r EXCEPT !.locks = @ \cup {item}]

\* LockRing.next: an empty ring raises, a ring without generator makes one,
\* and the item its generator yields is locked and returned
LockRing_next(r) ==
    IF r.store = {} THEN RingResult("IndexError", <<>>, r)
    ELSE LET g == IF r.ring.state = "None"
                  THEN Generator("live", 0, Cardinality(r.store)) ELSE r.ring
             got == generator_next([r EXCEPT !.ring = g])
         IN  IF got.raises # "none" THEN got
             ELSE RingResult("none", got.value, LockRing_lock(got.ring, got.value[1]))

\* a call of the ring: the ring changes and the call returns
RingCall(fn, args, res) ==
    /\ ring' = res.ring
    /\ UNCHANGED <<pool, thread, redis, client>>
    /\ ret' = [fn |-> fn, args |-> args, raises |-> res.raises, value |-> res.value]
    /\ UNCHANGED apiVars
    /\ UNCHANGED histVars

\* r.push(item)
RingPush(item) == RingCall("push", <<item>>, LockRing_push(ring, item))

\* r.pop()
RingPop ==
    \/ ring.store = {} /\ RingCall("pop", <<>>, LockRing_pop(ring, 0))
    \/ \E item \in ring.store : RingCall("pop", <<>>, LockRing_pop(ring, item))

\* r.next()
RingNext == RingCall("next", <<>>, LockRing_next(ring))

(***************************************************************************)
(* PgDbPool: transaction(), the close() of a transaction of the pool and   *)
(* close(), each called by one thread at a time.                           *)
(***************************************************************************)
\* PgDbPool._warm_up: n connections are made and pushed
RECURSIVE _warm_up(_, _)
_warm_up(r, n) ==
    IF n = 0 THEN r ELSE LockRing_push(_warm_up(r, n - 1), n).ring

\* a pool that makes the connection of the exhausted pool with pool=self
_new_connPooled(c) == "pooled"

\* PgDbPool._new_conn: the connections of the warm-up are made with
\* pool=self, the one of the exhausted pool with autoclose=True
_new_conn(c) == IF c <= PoolSize THEN "pooled" ELSE "autoclose"

\* PgDbPool._get_conn: the connection, the ring and the pool afterwards
_get_conn(p, r) ==
    LET warm == IF p.warmed_up THEN r ELSE _warm_up(r, PoolSize)
        p1 == IF p.warmed_up THEN p
              ELSE [p EXCEPT !.warmed_up = TRUE, !.made = PoolSize,
                             !.conns = [c \in Conns |->
                                           IF c <= PoolSize THEN "open" ELSE @[c]]]
        got == LockRing_next(warm)
        new == PoolSize + p.auto + 1
    IN  IF got.raises = "none"
        THEN [raises |-> "none", conn |-> got.value[1], ring |-> got.ring, pool |-> p1]
        ELSE IF got.raises \in {"IndexError", "StopIteration"}
        THEN [raises |-> "none", conn |-> new, ring |-> got.ring,
              pool |-> [p1 EXCEPT !.auto = @ + 1, !.conns[new] = "open"]]
        ELSE [raises |-> got.raises, conn |-> 0, ring |-> got.ring, pool |-> p1]

\* PgDbPool.transaction
PgDbPool_transaction(p, r) ==
    IF p.closed
    THEN [raises |-> "PgPoolClosedError", conn |-> 0, ring |-> r, pool |-> p]
    ELSE LET got == _get_conn(p, r)
         IN  IF got.raises # "none" THEN got
             ELSE [got EXCEPT !.pool.txs = Append(@, got.conn)]

\* PgTransaction.close of the i-th open transaction: PgConnection.reattach
\* unlocks the connection in its pool, or closes it
PgTransaction_reattach(p, r, i) ==
    LET c == p.txs[i]
        rest == SubSeq(p.txs, 1, i - 1) \o SubSeq(p.txs, i + 1, Len(p.txs))
    IN  IF p.conns[c] = "closed"
        THEN [raises |-> "PgConnectionClosedError", ring |-> r, pool |-> p]
        ELSE IF _new_conn(c) = "pooled"
        THEN IF p.closed
             THEN [raises |-> "PgPoolClosedError", ring |-> r, pool |-> p]
             ELSE [raises |-> "none", ring |-> LockRing_push(r, c).ring,
                   pool |-> [p EXCEPT !.txs = rest]]
        ELSE [raises |-> "none", ring |-> r,
              pool |-> [p EXCEPT !.txs = rest, !.conns[c] = "closed"]]

\* PgDbPool.close: every connection of the ring is popped and closed
PgDbPool_close(p, r) ==
    [raises |-> "none", ring |-> LockRing,
     pool |-> [p EXCEPT !.closed = TRUE,
                        !.conns = [c \in Conns |->
                                      IF c \in r.store THEN "closed" ELSE @[c]]]]

\* a call of the pool by a thread that runs alone
PoolCall(fn, args, res, value) ==
    /\ ring' = res.ring
    /\ pool' = res.pool
    /\ ret' = [fn |-> fn, args |-> args, raises |-> res.raises, value |-> value]
    /\ UNCHANGED <<thread, redis, client>>
    /\ UNCHANGED apiVars
    /\ UNCHANGED histVars

\* pool.transaction(); the exhausted pool makes at most MaxAuto connections
PoolTransaction ==
    LET res == PgDbPool_transaction(pool, ring)
    IN  /\ res.pool.auto <= MaxAuto
        /\ PoolCall("transaction", <<>>, res, <<res.conn>>)

\* cursor.close() of an open transaction of the pool
PoolTxClose(i) ==
    /\ i \in DOMAIN pool.txs
    /\ PoolCall("close", <<pool.txs[i]>>, PgTransaction_reattach(pool, ring, i), <<>>)

\* pool.close()
PoolClose == PoolCall("pool.close", <<>>, PgDbPool_close(pool, ring), <<>>)

(***************************************************************************)
(* PgDbPool used by several threads.  A thread is switched between any two *)
(* statements of transaction(), LockRing.next and LockRing.push; only      *)
(* _get_conn runs under self._lock, unlock() does not.  next() of the      *)
(* generator is one step.  The pool stays open.                            *)
(***************************************************************************)
\* the thread goes on at pc, with its local conn and flag
Goto(t, pc, conn, flag) ==
    thread' = [thread EXCEPT ![t] = [pc |-> pc, conn |-> conn, flag |-> flag]]

\* the call of the thread returns or raises
Done(t, fn, args, raises, value) ==
    /\ thread' = [thread EXCEPT ![t] = NoThread]
    /\ ret' = [fn |-> fn, args |-> args, raises |-> raises, value |-> value]

\* the frame of a step of a thread
ThreadStep == UNCHANGED apiVars /\ UNCHANGED histVars /\ UNCHANGED <<redis, client>>

\* where a thread is inside transaction(), and inside the close() of a
\* transaction before its connection is unlocked
InTransaction == {"with", "next", "ring", "item", "lock", "except", "return"}
InClose == {"push", "len", "unlock"}

\* pool.transaction() is called: the pool is open, and it makes at most
\* MaxAuto connections when every call under way finds it exhausted
TTransaction(t) ==
    /\ thread[t].pc = "idle"
    /\ ~pool.closed
    /\ pool.auto + Cardinality({u \in Threads : thread[u].pc \in InTransaction}) < MaxAuto
    /\ Goto(t, "with", 0, FALSE)
    /\ UNCHANGED <<ring, pool, ret>>
    /\ ThreadStep

\* with self._lock: the lock is taken, and _get_conn warms the pool up
TAcquire(t) ==
    /\ thread[t].pc = "with"
    /\ pool.lock = 0
    /\ IF pool.warmed_up
       THEN /\ pool' = [pool EXCEPT !.lock = t]
            /\ ring' = ring
       ELSE /\ pool' = [pool EXCEPT !.lock = t, !.warmed_up = TRUE, !.made = PoolSize,
                                    !.conns = [c \in Conns |->
                                                  IF c <= PoolSize THEN "open" ELSE @[c]]]
            /\ ring' = _warm_up(ring, PoolSize)
    /\ Goto(t, "next", 0, FALSE)
    /\ UNCHANGED ret
    /\ ThreadStep

\* LockRing.next: if not self: raise IndexError
TNextEmpty(t) ==
    /\ thread[t].pc = "next"
    /\ Goto(t, IF ring.store = {} THEN "except" ELSE "ring", 0, FALSE)
    /\ UNCHANGED <<ring, pool, ret>>
    /\ ThreadStep

\* LockRing.next: if not self._ring: self._ring = self._iter()
TNextRing(t) ==
    /\ thread[t].pc = "ring"
    /\ ring' = IF ring.ring.state = "None"
               THEN [ring EXCEPT !.ring = Generator("live", 0, Cardinality(ring.store))]
               ELSE ring
    /\ Goto(t, "item", 0, FALSE)
    /\ UNCHANGED <<pool, ret>>
    /\ ThreadStep

\* LockRing.next: item = next(self._ring); next(None) raises TypeError, which
\* _get_conn does not catch: the with statement releases the lock and
\* transaction() raises
TNextItem(t) ==
    /\ thread[t].pc = "item"
    /\ IF ring.ring.state = "None"
       THEN /\ pool' = [pool EXCEPT !.lock = 0]
            /\ Done(t, "transaction", <<>>, "TypeError", <<>>)
            /\ ring' = ring
       ELSE LET got == generator_next(ring)
            IN  /\ ring' = got.ring
                /\ IF got.raises = "none" THEN Goto(t, "lock", got.value[1], FALSE)
                   ELSE IF got.raises \in {"IndexError", "StopIteration"}
                   THEN Goto(t, "except", 0, FALSE)
                   ELSE Done(t, "transaction", <<>>, got.raises, <<>>)
                /\ pool' = IF got.raises \in {"none", "IndexError", "StopIteration"}
                           THEN pool ELSE [pool EXCEPT !.lock = 0]
                /\ IF got.raises \in {"none", "IndexError", "StopIteration"}
                   THEN ret' = ret ELSE TRUE
    /\ ThreadStep

\* LockRing.next: self.lock(item); return item
TNextLock(t) ==
    /\ thread[t].pc = "lock"
    /\ ring' = LockRing_lock(ring, thread[t].conn)
    /\ Goto(t, "return", thread[t].conn, FALSE)
    /\ UNCHANGED <<pool, ret>>
    /\ ThreadStep

\* _get_conn: except (IndexError, StopIteration): a new connection
TExcept(t) ==
    LET new == PoolSize + pool.auto + 1
    IN  /\ thread[t].pc = "except"
        /\ pool' = [pool EXCEPT !.auto = @ + 1, !.conns[new] = "open"]
        /\ Goto(t, "return", new, FALSE)
        /\ UNCHANGED <<ring, ret>>
        /\ ThreadStep

\* the with statement ends and conn.transaction(**kwargs) is returned
TReturn(t) ==
    /\ thread[t].pc = "return"
    /\ pool' = [pool EXCEPT !.lock = 0, !.txs = Append(@, thread[t].conn)]
    /\ Done(t, "transaction", <<>>, "none", <<thread[t].conn>>)
    /\ UNCHANGED ring
    /\ ThreadStep

\* PgTransaction.close of the i-th open transaction is called: reattach
\* closes a connection made with autoclose, or calls unlock and push
TClose(t, i) ==
    /\ thread[t].pc = "idle"
    /\ i \in DOMAIN pool.txs
    /\ LET c == pool.txs[i]
           rest == SubSeq(pool.txs, 1, i - 1) \o SubSeq(pool.txs, i + 1, Len(pool.txs))
       IN  IF _new_conn(c) = "pooled"
           THEN /\ pool' = [pool EXCEPT !.txs = rest]
                /\ Goto(t, "push", c, FALSE)
                /\ UNCHANGED ret
           ELSE /\ pool' = [pool EXCEPT !.txs = rest, !.conns[c] = "closed"]
                /\ Done(t, "close", <<c>>, "none", <<>>)
    /\ UNCHANGED ring
    /\ ThreadStep

\* LockRing.push: self._store.add(item); if item in self._locks
TPushAdd(t) ==
    /\ thread[t].pc = "push"
    /\ ring' = [ring EXCEPT !.store = @ \cup {thread[t].conn}]
    /\ IF thread[t].conn \in ring.locks
       THEN Goto(t, "len", thread[t].conn, FALSE) /\ UNCHANGED ret
       ELSE Done(t, "close", <<thread[t].conn>>, "none", <<>>)
    /\ UNCHANGED pool
    /\ ThreadStep

\* LockRing.push: if len(self._locks) == len(self._store)
TPushLen(t) ==
    /\ thread[t].pc = "len"
    /\ Goto(t, "unlock", thread[t].conn, Cardinality(ring.locks) = Cardinality(ring.store))
    /\ UNCHANGED <<ring, pool, ret>>
    /\ ThreadStep

\* LockRing.push: self._ring = None, if the lengths were equal;
\* self.unlock(item); the transaction is closed
TPushUnlock(t) ==
    /\ thread[t].pc = "unlock"
    /\ ring' = [ring EXCEPT !.ring = IF thread[t].flag THEN NoGenerator ELSE @,
                            !.locks = @ \ {thread[t].conn}]
    /\ Done(t, "close", <<thread[t].conn>>, "none", <<>>)
    /\ UNCHANGED pool
    /\ ThreadStep

(***************************************************************************)
(* RedisLock on one key of one Redis server.  SET with NX and EX and the   *)
(* Lua script are each one command of the server; time passes in seconds.  *)
(***************************************************************************)
\* RedisLock._value: str(uuid.uuid4()), a token no other lock object has
_value(l) == l

\* RedisLock._wait of the lock objects: the last one waits
wait(l) == l = MaxLocks

\* a SET without NX
_set_lockAlways(lock, l) == [ok |-> TRUE, lock |-> [value |-> _value(l), ttl |-> TTL]]

\* RedisLock._set_lock: db.set(key, value, ex=ttl, nx=True)
_set_lock(lock, l) ==
    IF lock.value = 0
    THEN [ok |-> TRUE, lock |-> [value |-> _value(l), ttl |-> TTL]]
    ELSE [ok |-> FALSE, lock |-> lock]

\* a release that deletes the key whatever it stores
STRICT_RELEASE_Any(lock, l) == NoLock

\* STRICT_RELEASE: if GET key == token then DEL key
STRICT_RELEASE(lock, l) == IF lock.value = _value(l) THEN NoLock ELSE lock

\* the frame of a step of a client of Redis
RedisStep ==
    /\ UNCHANGED apiVars
    /\ UNCHANGED histVars
    /\ UNCHANGED <<ring, pool, thread>>

\* a call on lock object l returns or raises
LockDone(l, fn, args, raises, obj) ==
    /\ client' = [client EXCEPT !.locks[l] = obj]
    /\ ret' = [fn |-> fn, args |-> args, raises |-> raises, value |-> <<>>]

\* RedisLock.acquire, called as such or by __enter__: the key is set, or
\* the lock object starts to wait for ttl + 1 seconds, or AlreadyLocked
LockAcquire(l, with) ==
    LET me == client.locks[l]
        set == _set_lock(redis.lock, l)
        fn == IF with THEN "__enter__" ELSE "acquire"
    IN  /\ me.pc = "out"
        /\ redis' = [redis EXCEPT !.lock = set.lock]
        /\ IF set.ok
           THEN LockDone(l, fn, <<l>>, "none",
                         [me EXCEPT !.pc = IF with THEN "in" ELSE "out",
                                    !.held = TRUE, !.db = TRUE])
           ELSE IF wait(l)
           THEN /\ client' = [client EXCEPT !.locks[l] =
                                 [me EXCEPT !.pc = "waiting", !.with = with,
                                            !.left = TTL + 1, !.db = TRUE]]
                /\ UNCHANGED ret
           ELSE LockDone(l, fn, <<l>>, "AlreadyLocked", [me EXCEPT !.db = TRUE])
        /\ RedisStep

\* RedisLock.acquire, the loop: a later _set_lock sets the key
LockRetry(l) ==
    LET me == client.locks[l]
        set == _set_lock(redis.lock, l)
    IN  /\ me.pc = "waiting"
        /\ me.left > 0
        /\ set.ok
        /\ redis' = [redis EXCEPT !.lock = set.lock]
        /\ LockDone(l, IF me.with THEN "__enter__" ELSE "acquire", <<l>>, "none",
                    [me EXCEPT !.pc = IF me.with THEN "in" ELSE "out",
                               !.with = FALSE, !.left = 0, !.held = TRUE])
        /\ RedisStep

\* RedisLock.acquire, after the loop: raise AlreadyLocked
LockGiveUp(l) ==
    LET me == client.locks[l]
    IN  /\ me.pc = "waiting"
        /\ me.left = 0
        /\ LockDone(l, IF me.with THEN "__enter__" ELSE "acquire", <<l>>, "AlreadyLocked",
                    [me EXCEPT !.pc = "out", !.with = FALSE])
        /\ UNCHANGED redis
        /\ RedisStep

\* RedisLock.release: Lua.__call__ raises unless the script was registered,
\* which the first command sent through the RedisDb does
LockRelease(l) ==
    LET me == client.locks[l]
    IN  /\ me.pc = "out"
        /\ IF me.db
           THEN /\ redis' = [redis EXCEPT !.lock = STRICT_RELEASE(redis.lock, l)]
                /\ LockDone(l, "release", <<l>>, "none", [me EXCEPT !.held = FALSE])
           ELSE /\ redis' = redis
                /\ LockDone(l, "release", <<l>>, "NotRegisteredScript", me)
        /\ RedisStep

\* RedisLock.__exit__ at the end of the with block, or with an exception
\* raised in it: self.release()
LockExit(l, exc) ==
    LET me == client.locks[l]
    IN  /\ me.pc = "in"
        /\ redis' = [redis EXCEPT !.lock = STRICT_RELEASE(redis.lock, l)]
        /\ LockDone(l, "__exit__", <<l, exc>>, "none",
                    [me EXCEPT !.pc = "out", !.held = FALSE])
        /\ RedisStep

\* a second passes: the key expires when its ttl is over, and it is no
\* longer held; the lock objects that wait have a second less
Tick ==
    /\ redis.lock.value # 0 \/ \E l \in Locks : client.locks[l].left > 0
    /\ redis' = [redis EXCEPT !.lock = IF @.ttl > 1 THEN [@ EXCEPT !.ttl = @ - 1]
                                       ELSE NoLock]
    /\ client' = [client EXCEPT !.locks = [l \in Locks |->
                     [@[l] EXCEPT !.left = IF @ > 0 THEN @ - 1 ELSE 0,
                                  !.held = @ /\ ~(redis.lock.ttl = 1 /\ redis.lock.value = _value(l))]]]
    /\ UNCHANGED ret
    /\ RedisStep

(***************************************************************************)
(* RedisQueue: producers, stop() and the one consumer of consume().        *)
(***************************************************************************)
\* rpush(key, value) on the lists of the server
rpush(lists, key, value) == [lists EXCEPT ![key] = Append(@, value)]

\* the keys of blpop that have a value, in the order they are given
NonEmpty(lists, keys) == SelectSeq(keys, LAMBDA k : lists[k] # <<>>)

\* blpop(keys): the first value of the first list that has one
blpop(lists, keys) ==
    LET key == NonEmpty(lists, keys)[1]
    IN  [item |-> <<key, Head(lists[key])>>, lists |-> [lists EXCEPT ![key] = Tail(@)]]

\* RedisQueue.put(queue, value) of a producer, on any list
QueuePut(queue, value) ==
    /\ Len(redis.lists[RedisDb_key(queue)]) < MaxLen
    /\ redis' = [redis EXCEPT !.lists = rpush(@, RedisDb_key(queue), value)]
    /\ ret' = [fn |-> "put", args |-> <<queue, value>>, raises |-> "none", value |-> <<>>]
    /\ UNCHANGED client
    /\ RedisStep

\* RedisQueue.stop
QueueStop ==
    /\ Len(redis.lists[RedisDb_key(CONTROL_QUEUE)]) < MaxLen
    /\ redis' = [redis EXCEPT !.lists = rpush(@, RedisDb_key(CONTROL_QUEUE), "STOP")]
    /\ client' = [client EXCEPT !.queue.stopped = TRUE]
    /\ ret' = [fn |-> "stop", args |-> <<>>, raises |-> "none", value |-> <<>>]
    /\ RedisStep

\* RedisQueue.consume, one pass of its loop: blpop waits for a value; STOP
\* of the control queue ends the loop, any other item is yielded
QueueConsume ==
    /\ client.queue.pc = "consume"
    /\ NonEmpty(redis.lists, RedisQueue_keys) # <<>>
    /\ LET got == blpop(redis.lists, RedisQueue_keys)
       IN  /\ redis' = [redis EXCEPT !.lists = got.lists]
           /\ IF got.item = <<RedisDb_key(CONTROL_QUEUE), "STOP">>
              THEN /\ client' = [client EXCEPT !.queue.pc = "return"]
                   /\ ret' = [fn |-> "consume", args |-> <<>>, raises |-> "StopIteration",
                              value |-> <<>>]
              ELSE /\ client' = client
                   /\ ret' = [fn |-> "consume", args |-> <<>>, raises |-> "none",
                              value |-> got.item]
    /\ RedisStep

(***************************************************************************)
(* PgTransaction as a context manager on a PgConnection.                   *)
(***************************************************************************)
\* the most statements a scope executes
MaxQueries == 2

\* a PgConnection in use: one of the pool (locked in its ring), one the
\* exhausted pool made with autoclose, or one made by the application; work
\* is what became of the statements of the scope
PgConnection(kind) ==
    [kind |-> kind, state |-> IF kind = "pooled" THEN "locked" ELSE "open",
     work |-> "none"]

\* PgTransaction.__init__: named has the higher priority
PgTransaction(conn, autocommit, named) ==
    [pg_conn |-> conn, autocommit |-> autocommit /\ ~ named, named |-> named,
     cursor |-> FALSE, failed |-> FALSE, closed |-> FALSE, queries |-> 0]

\* PgTransaction._ensure_cursor
_ensure_cursor(self) == [self EXCEPT !.cursor = TRUE]

\* PgTransaction._exec: in autocommit mode the statement is committed when
\* it returns
_exec(self) ==
    [_ensure_cursor(self) EXCEPT
        !.queries = @ + 1,
        !.pg_conn.work = IF self.autocommit THEN "committed" ELSE "pending"]

\* PgConnection.reattach
reattach(conn) ==
    IF conn.kind = "pooled" THEN [conn EXCEPT !.state = "unlocked"]
    ELSE IF conn.kind = "autoclose" THEN [conn EXCEPT !.state = "closed"]
    ELSE conn

\* PgTransaction.close
PgTransaction_close(self) ==
    [self EXCEPT !.cursor = FALSE, !.queries = 0,
                 !.pg_conn = reattach(self.pg_conn), !.closed = TRUE]

\* PgConnection.commit and PgConnection.rollback when they return
commit(conn) ==
    [conn EXCEPT !.work = IF @ = "pending" THEN "committed" ELSE @]
rollback(conn) ==
    [conn EXCEPT !.work = IF @ = "pending" THEN "rolled back" ELSE @]

\* PgTransaction.__exit__: exc tells whether the scope is left by an
\* exception, fails whether the commit or rollback of the connection raises
PgTransaction__exit__(self, exc, fails) ==
    LET calls == IF exc THEN ~ self.autocommit
                 ELSE self.named \/ ~ self.autocommit
        done == IF ~ calls THEN self
                ELSE IF exc THEN [self EXCEPT !.pg_conn = rollback(self.pg_conn)]
                ELSE [self EXCEPT !.pg_conn = commit(self.pg_conn)]
    IN  IF calls /\ fails
        THEN [raises |-> "Error", self |-> self]
        ELSE [raises |-> "none",
              self |-> PgTransaction_close([done EXCEPT !.failed = exc])]

\* with ... as cursor: __enter__
Enter ==
    /\ Pending("transaction")
    /\ ret' = [ret EXCEPT !.fn = "with", !.args = <<_ensure_cursor(ret.args[1])>>]
    /\ UNCHANGED <<registry, cat, last_sync, applied, classes, raised, counter,
                   made, compared>>
    /\ UNCHANGED <<histVars, libVars>>

\* cursor.execute(query) in the scope
Execute ==
    /\ Pending("with")
    /\ ret.args[1].queries < MaxQueries
    /\ ret' = [ret EXCEPT !.args = <<_exec(ret.args[1])>>]
    /\ UNCHANGED <<registry, cat, last_sync, applied, classes, raised, counter,
                   made, compared>>
    /\ UNCHANGED <<histVars, libVars>>

\* the scope is left, normally or by an exception of its body: __exit__
Exit(exc, fails) ==
    /\ Pending("with")
    /\ LET r == PgTransaction__exit__(ret.args[1], exc, fails)
       IN  ret' = [fn |-> "__exit__", args |-> <<ret.args[1]>>,
                   raises |-> r.raises,
                   value |-> [exc |-> exc, self |-> r.self]]
    /\ UNCHANGED <<registry, cat, last_sync, applied, classes, raised, counter,
                   made, compared>>
    /\ UNCHANGED <<histVars, libVars>>

\* the classes whose constraints are declared: every list of attributes
\* with different slugs, each not-null or not
DdlTables ==
    {[name |-> "T", db_table |-> "t", attrs |-> as] :
        as \in {x \in UNION {[1..n -> {Attr(slug, FALSE, nn) :
                                          slug \in DOMAIN value_type,
                                          nn \in BOOLEAN}] : n \in 0..MaxAttrs} :
                   \A i, j \in DOMAIN x : i # j => x[i].slug # x[j].slug}}

\* list(Table(entity_class).constraints)
TableConstraints ==
    /\ Pending("Table.constraints")
    /\ Returns([raises |-> "none", value |-> Table_constraints(ret.args[1])])

\* list(_to_drop(state)) for a state whose only orphan is the constraint
\* the DDL generator made for the attribute slug of table db_table
DropConstraint ==
    /\ Pending("_to_drop")
    /\ LET name == Constraint_name([db_table |-> ret.args[1]], [slug |-> ret.args[2]])
           state == [tables |-> {}, views |-> {}, triggers |-> {}, indices |-> {},
                     constraints |-> {name}]
           ord == CHOOSE o \in to_drop_orders(state) : TRUE
       IN  Returns([raises |-> "none", value |-> _to_drop(state, ord)])

\* qbuilder.select(*conds, **kwargs)
QSelect ==
    /\ Pending("qbuilder.select")
    /\ Returns(QueryViewBuilder_select(ret.args[1], "T", ret.args[2], ret.args[3]))

\* cls.by_id(cursor, entity_id)
EById ==
    /\ Pending("by_id")
    /\ Returns(AbstractEntity_by_id_execute(ret.args[1], ret.args[2]))

\* self.delete(cursor)
EDelete ==
    /\ Pending("delete")
    /\ Returns(AbstractEntity_delete(ret.args[1]))

\* qbuilder.by_id(*ids)
QById ==
    /\ Pending("qbuilder.by_id")
    /\ Returns(QueryViewBuilder_by_id(ret.args[1], ret.args[2]))

\* qbuilder.delete(*entities)
QDelete ==
    /\ Pending("qbuilder.delete")
    /\ Returns(QueryViewBuilder_delete(ret.args[1], ret.args[2]))

\* the batch syncdb returned is the one for the present registry and catalog
Current ==
    /\ last_sync.ran
    /\ last_sync.registry = registry
    /\ last_sync.state = inspect(cat)

\* storage.syncdb; a second call on the same registry and catalog returns
\* what the first returned and changes nothing
syncdb ==
    LET r == _syncdb(registry, cat)
    IN  \E ord \in to_drop_orders(r.state) :
            /\ ~ Current
            /\ last_sync' = [ran |-> TRUE, registry |-> registry,
                             state |-> inspect(cat), create |-> r.sql,
                             drop |-> _to_drop(r.state, ord), after |-> applied]
            /\ UNCHANGED <<registry, cat, applied>>
            /\ UNCHANGED declVars
            /\ UNCHANGED <<histVars, libVars>>

Names(batch, op) == {batch[i].name : i \in {k \in DOMAIN batch : batch[k].op = op}}

\* cursor.execute(create_sql) in one transaction
ApplyCreate ==
    /\ Current
    /\ last_sync.create # <<>>
    /\ cat' = execute(last_sync.create, cat)
    /\ applied' = [kind |-> "created",
                   tables |-> Names(last_sync.create, "CREATE TABLE")]
    /\ last_sync' = NoSync
    /\ UNCHANGED registry
    /\ UNCHANGED declVars
    /\ UNCHANGED <<histVars, libVars>>

\* cursor.execute(drop_sql) in one transaction
ApplyDrop ==
    /\ Current
    /\ last_sync.drop # <<>>
    /\ cat' = execute(last_sync.drop, cat)
    /\ applied' = [kind |-> "dropped",
                   tables |-> Names(last_sync.drop, "DROP TABLE")]
    /\ last_sync' = NoSync
    /\ UNCHANGED registry
    /\ UNCHANGED declVars
    /\ UNCHANGED <<histVars, libVars>>

\* DROP SCHEMA ... CASCADE
DropSchema ==
    /\ cat.schemas # {}
    /\ cat' = DROP_SCHEMA(cat)
    /\ last_sync' = NoSync
    /\ applied' = NoApply
    /\ UNCHANGED registry
    /\ UNCHANGED declVars
    /\ UNCHANGED <<histVars, libVars>>

Init == InitHist /\ InitSync /\ ret = NoRet

\* transactions of the sessions interleave freely
NextHist ==
    \/ \E s \in Sessions, dt \in {0, 1} : Begin(s, dt)
    \/ \E s \in Sessions : Statement(s)

\* one transaction at a time
NextSeq ==
    \/ \E s \in Sessions, dt \in {0, 1} : BeginAlone(s, dt)
    \/ \E s \in Sessions : Statement(s)

\* indices somebody else created in the schema, on the entity table
ForeignIndexNames == {"jump_idx", "my_idx"}

\* CREATE INDEX issued by another application
ForeignIndex(name) ==
    /\ ET \in cat.tables
    /\ name \notin inspect(cat).indices
    /\ cat' = Exec(Sql("CREATE INDEX", name, ET), cat)
    /\ last_sync' = NoSync
    /\ applied' = NoApply
    /\ UNCHANGED registry
    /\ UNCHANGED declVars
    /\ UNCHANGED <<histVars, libVars>>

\* the synchronisation of one type in a schema shared with foreign objects
NextForeign ==
    \/ register(T)
    \/ unregister(T)
    \/ syncdb
    \/ ApplyCreate
    \/ ApplyDrop
    \/ DropSchema
    \/ \E name \in ForeignIndexNames : ForeignIndex(name)

\* the class was declared with skip_registry = True
SkipDeclared(k) == \E d \in Decls : d.name = k.name /\ d.skip_registry

\* the table and the view of a class are in the schema although syncdb did
\* not create them (left by an earlier deployment, or made by hand)
Physical(k) ==
    /\ k.db_table # NoAttr
    /\ ET \in cat.tables
    /\ k.db_table \notin cat.tables
    /\ cat' = execute(CreateTableSql(k).sql \o CreateViewSql(k).sql, cat)
    /\ last_sync' = NoSync
    /\ applied' = NoApply
    /\ UNCHANGED registry
    /\ UNCHANGED declVars
    /\ UNCHANGED <<histVars, libVars>>

\* the synchronisation of an application with a class that opted out of the
\* registry
NextSkip ==
    \/ \E d \in {x \in Decls : x.name \in {"T", "C"}} : Declare(d)
    \/ \E k \in classes : ~ SkipDeclared(k) /\ register(k)
    \/ \E k \in classes : unregister(k)
    \/ \E k \in classes : SkipDeclared(k) /\ Physical(k)
    \/ syncdb
    \/ ApplyCreate
    \/ ApplyDrop

\* the registry and the class statements
NextReg ==
    \/ \E d \in Decls : Declare(d)
    \/ \E k \in classes : register(k)
    \/ \E k \in classes : register_raises(k)
    \/ \E k \in classes : unregister(k)
    \/ \E k \in classes : unregister_raises(k)
    \/ NewAttr

\* Attr objects are constructed, in class bodies and outside, and compared
NextAttr ==
    \/ \E d \in {e \in Decls : e.attrs # <<>>} : Declare(d)
    \/ NewAttr
    \/ \E self \in Attrs, other \in Attrs \cup NonAttrs : Compare(self, other)

\* attributes are constructed with keyword options
NextCtor ==
    \E kwargs \in Kwargs : Attr__init__(kwargs)

(***************************************************************************)
(* by_id: a SELECT on the live view in the transaction of the cursor.      *)
(***************************************************************************)
\* AbstractEntity.by_id(cursor, entity_id) for a class with table tab, the
\* cursor being the transaction of session s: SELECT "entity_id","doc" FROM
\* "<tab>__live" WHERE "entity_id" = %s; cls(**row) of the first row, or
\* DoesNotExist
AbstractEntity_by_id(s, tab, entity_id) ==
    LET found == {v \in LiveView(s, tab) : v.eid = entity_id}
    IN  IF found = {}
        THEN [raises |-> "DoesNotExist", value |-> <<>>]
        ELSE [raises |-> "none", value |-> <<(CHOOSE v \in found : TRUE).eid>>]

ById(s, tab, entity_id) ==
    /\ tstate[s] = "open"
    /\ ret' = [fn |-> "by_id", args |-> <<tab, entity_id>>,
               raises |-> AbstractEntity_by_id(s, tab, entity_id).raises,
               value |-> AbstractEntity_by_id(s, tab, entity_id).value]
    /\ UNCHANGED <<registry, cat, last_sync, applied, classes, raised, counter,
                   made, compared>>
    /\ UNCHANGED <<histVars, libVars>>

\* the entity that is loaded by id: the first one of table "t"
ByIdTabs == {"t"}
ByIdEntities == {SeqStart}

\* the entity is loaded by id while the transactions that work on its table
\* interleave freely
NextById ==
    \/ \E s \in Sessions, dt \in {0, 1} : Begin(s, dt)
    \/ \E s \in Sessions, tab \in ByIdTabs : Insert(s, tab)
    \/ \E s \in Sessions, tab \in ByIdTabs, e \in 1..seqval :
          \E d \in ClientDocs(s, tab, e) : UpdateScan(s, tab, e, d)
    \/ \E s \in Sessions : UpdateFire(s)
    \/ \E s \in Sessions, tab \in ByIdTabs, e \in 1..seqval : DeleteScan(s, tab, e)
    \/ \E s \in Sessions : DeleteFire(s)
    \/ \E s \in Sessions : Commit(s)
    \/ \E s \in Sessions, tab \in ByIdTabs, e \in ByIdEntities : ById(s, tab, e)

\* the calls of the entity API, each with arguments of its kind
InitApi ==
    /\ InitHist
    /\ InitSync
    /\ \/ ret \in {Call("__eq__", <<a, b>>) :
                      a \in Instances, b \in Instances \cup NonEntities}
       \/ ret \in {Call("__ne__", <<a, b>>) :
                      a \in Instances, b \in Instances \cup NonEntities}
       \/ ret \in {Call("deserialize", <<e>>) : e \in Instances}
       \/ \E e \in Instances : ret \in {Call("save", <<e, r>>) : r \in SaveRows(e)}

NextApi ==
    \/ Eq
    \/ Ne
    \/ RoundTrip
    \/ Save

\* the schema synchronisation on its own
NextSync ==
    \/ \E ty \in Types : register(ty)
    \/ \E ty \in Types : unregister(ty)
    \/ syncdb
    \/ ApplyCreate
    \/ ApplyDrop
    \/ DropSchema

Spec == Init /\ [][NextHist]_vars
SpecSeq == Init /\ [][NextSeq]_vars
SpecSync == Init /\ [][NextSync]_vars
SpecForeign == Init /\ [][NextForeign]_vars
SpecReg == Init /\ [][NextReg]_vars
SpecAttr == Init /\ [][NextAttr]_vars
SpecCtor == Init /\ [][NextCtor]_vars
SpecById == Init /\ [][NextById]_vars
SpecApi == InitApi /\ [][NextApi]_vars

\* the calls of the query builder of class T
InitQuery ==
    /\ InitHist
    /\ InitSync
    /\ \/ ret \in {Call("qbuilder.by_id", <<DBViewName(T.db_table), ids>>) :
                      ids \in Args(QIds)}
       \/ ret \in {Call("qbuilder.delete", <<DBViewName(T.db_table), es>>) :
                      es \in Args(QEntities)}
       \/ \E kwargs \in SelectKwargs :
             ret \in {Call("qbuilder.select", <<DBViewName(T.db_table), conds, kwargs>>) :
                         conds \in UNION {[1..n -> Conds] : n \in 0..MaxConds}}
       \/ ret \in {Call("by_id", <<"T", id>>) : id \in QIds}
       \/ ret \in {Call("delete", <<e>>) : e \in QEntities \ {NoEntity}}

NextQuery ==
    \/ QById
    \/ QDelete
    \/ QSelect
    \/ EById
    \/ EDelete

SpecQuery == InitQuery /\ [][NextQuery]_vars

\* the constraints of the classes of DdlTables
InitDdl ==
    /\ InitHist
    /\ InitSync
    /\ ret \in {Call("Table.constraints", <<t>>) : t \in DdlTables}

NextDdl == TableConstraints

SpecDdl == InitDdl /\ [][NextDdl]_vars

\* the names a class can declare as db_table and as the slug of an
\* attribute: the identifiers of letters and underscores, MaxName long
MaxName == 3
RECURSIVE Identifiers(_)
Identifiers(n) ==
    IF n = 0 THEN {""}
    ELSE Identifiers(n - 1) \cup {x \o c : x \in Identifiers(n - 1), c \in {"a", "_"}}

\* the drop of the orphaned constraint of each table and slug
InitDrop ==
    /\ InitHist
    /\ InitSync
    /\ ret \in {Call("_to_drop", <<tn, slug>>) : tn, slug \in Identifiers(MaxName) \ {""}}

NextDrop == DropConstraint

SpecDrop == InitDrop /\ [][NextDrop]_vars

\* a transaction of each mode on a connection of each kind
InitTxn ==
    /\ InitHist
    /\ InitSync
    /\ ret \in {Call("transaction", <<PgTransaction(PgConnection(kind), a, n)>>) :
                   kind \in {"pooled", "autoclose", "own"}, a \in BOOLEAN,
                   n \in BOOLEAN}

NextTxn ==
    \/ Enter
    \/ Execute
    \/ \E exc \in BOOLEAN, fails \in BOOLEAN : Exit(exc, fails)

SpecTxn == InitTxn /\ [][NextTxn]_vars
SpecSkip == Init /\ [][NextSkip]_vars

\* any sequence of push, pop and next on one ring
NextRing ==
    \/ \E item \in Items : RingPush(item)
    \/ RingPop
    \/ RingNext

SpecRing == Init /\ [][NextRing]_vars

\* the calls of one pool, one at a time
NextPool ==
    \/ PoolTransaction
    \/ \E i \in 1..(PoolSize + MaxAuto) : PoolTxClose(i)
    \/ PoolClose

SpecPool == Init /\ [][NextPool]_vars

\* the threads of one pool
NextPoolThreads ==
    \E t \in Threads :
        \/ TTransaction(t)
        \/ TAcquire(t)
        \/ TNextEmpty(t)
        \/ TNextRing(t)
        \/ TNextItem(t)
        \/ TNextLock(t)
        \/ TExcept(t)
        \/ TReturn(t)
        \/ \E i \in 1..(PoolSize + MaxAuto) : TClose(t, i)
        \/ TPushAdd(t)
        \/ TPushLen(t)
        \/ TPushUnlock(t)

SpecPoolThreads == Init /\ [][NextPoolThreads]_vars

\* the clients of one lock key
NextLock ==
    \/ \E l \in Locks, with \in BOOLEAN : LockAcquire(l, with)
    \/ \E l \in Locks : LockRetry(l)
    \/ \E l \in Locks : LockGiveUp(l)
    \/ \E l \in Locks : LockRelease(l)
    \/ \E l \in Locks, exc \in BOOLEAN : LockExit(l, exc)
    \/ Tick

SpecLock == Init /\ [][NextLock]_vars

\* the producers and the consumer of one queue manager; the consumer goes
\* on whenever blpop has a value for it
NextQueue ==
    \/ \E queue \in {Queues[i] : i \in DOMAIN Queues} \cup {CONTROL_QUEUE}, value \in QueueValues :
          QueuePut(queue, value)
    \/ QueueStop
    \/ QueueConsume

SpecQueue == Init /\ [][NextQueue]_vars /\ WF_vars(QueueConsume)

(***************************************************************************)
(* Properties of the storage.                                              *)
(***************************************************************************)
Range(f) == {f[i] : i \in DOMAIN f}

\* no statement is running
Quiet == \A s \in Sessions : tstate[s] \in {"idle", "open"}

\* what a client reads: inside the open transaction its rows and its now(),
\* otherwise the committed rows at the current instant
Reader == IF \E s \in Sessions : tstate[s] # "idle"
          THEN CHOOSE s \in Sessions : tstate[s] # "idle"
          ELSE NoSession
ReadRows(tab) == IF Reader = NoSession THEN BaseTable(tab)
                 ELSE TableRows(Reader, tab)
ReadNow == IF Reader = NoSession THEN clock ELSE tnow[Reader]
BaseOf(e) == UNION {{v \in ReadRows(tab) : v.eid = e} : tab \in Tabs}
LiveOf(e) == {v \in BaseOf(e) : CREATE_VIEW(v, ReadNow)}
MostRecent(e) == CHOOSE v \in BaseOf(e) : \A w \in BaseOf(e) : w.id <= v.id

\* C1: for every entity_id and at every instant at most one committed row of
\* the base table is live, under any interleaving of READ COMMITTED
\* transactions that update and delete through the live view
C1_AtMostOneLiveRow ==
    \A tab \in Tabs, e \in 1..MaxEntities, t \in 0..MaxTime :
        Cardinality({v \in LiveRowsAt(tab, t) : v.eid = e}) <= 1

\* C2: after one insert and N sequential updates of an entity_id, exactly 1 row
\* of it is visible through the live view and exactly N+1 rows of it are in
\* the base table
C2_HistoryCount ==
    \A e \in Range(createLog) :
        (Quiet /\ hist[e].del = 0 /\ BaseOf(e) # {}) =>
            /\ Cardinality(LiveOf(e)) = 1
            /\ Cardinality(BaseOf(e)) = hist[e].upd + 1

C2_Witness ==
    \E e \in Range(createLog) :
        Quiet /\ hist[e].del = 0 /\ hist[e].upd = 2 /\ BaseOf(e) # {}

\* C3: the delete of a live entity through the live view leaves no row of its
\* entity_id in the live view, leaves the number of its base-table rows
\* unchanged, and the most recent of them then carries a _deleted stamp
C3_Delete ==
    [][\A s \in Sessions : \A o \in old[s] :
          (tstate[s] = "del" /\ tstate'[s] = "open") =>
              /\ LiveOf(o.eid)' = {}
              /\ Cardinality(BaseOf(o.eid)') = Cardinality(BaseOf(o.eid))
              /\ MostRecent(o.eid)'.doc.deleted # NoStamp]_vars

C3_Witness ==
    \E e \in Range(createLog) :
        /\ Quiet /\ hist[e].del = 1 /\ hist[e].upd = 1
        /\ LiveOf(e) = {} /\ Cardinality(BaseOf(e)) = 2

\* C4: no base-table row is ever removed, and a committed row that was
\* closed is never modified again
C4_AppendOnly ==
    [][\A r \in rows :
          \E r2 \in rows' :
             /\ r2.tab = r.tab /\ r2.id = r.id
             /\ (r.xmin = NoSession /\ r.ee <= clock) => Com(r2) = Com(r)]_vars

\* C5: the creates return pairwise distinct, strictly increasing entity ids,
\* whatever tables they target, and an update allocates no entity id: every
\* row carries an id a create returned, and the sequence moved once per create
C5_EntityIds ==
    /\ \A i, j \in DOMAIN createLog : i < j => createLog[i] < createLog[j]
    /\ \A r \in rows : r.eid \in Range(createLog)
    /\ \A r1, r2 \in rows : r1.eid = r2.eid => r1.tab = r2.tab
    /\ seqval = SeqStart - 1 + Len(createLog)

C5_Witness ==
    /\ Len(createLog) = 2
    /\ \E r1, r2 \in rows : r1.tab # r2.tab
    /\ \E e \in Range(createLog) : hist[e].upd > 0

\* C6: an insert stamps _created and _updated with the same value; every
\* later version of the entity carries the same entity_id, the _created
\* stamp of the insert and the _updated stamp of its own transaction
C6_Stamps ==
    \A r \in rows :
        LET first == CHOOSE f \in rows :
                        /\ f.eid = r.eid
                        /\ \A g \in rows : g.eid = r.eid => f.id <= g.id
        IN /\ first.doc.created = first.doc.updated
           /\ first.doc.created # NoStamp
           /\ r.doc.created = first.doc.created
           /\ r.doc.updated = r.es

(***************************************************************************)
(* Properties of the schema synchronisation.  They read the batches of the *)
(* last syncdb call together with the registry and the introspected state  *)
(* the call worked on.                                                     *)
(***************************************************************************)
Count(batch, op) == Cardinality({i \in DOMAIN batch : batch[i].op = op})

CountNamed(batch, op, name) ==
    Cardinality({i \in DOMAIN batch : batch[i].op = op /\ batch[i].name = name})

Contains(batch, sql) ==
    \E k \in 0..(Len(batch) - Len(sql)) : SubSeq(batch, k + 1, k + Len(sql)) = sql

\* every object the type declares is in the introspected state
Synced(ty, state) ==
    \A i \in DOMAIN Table_items(ty) :
        Table_items(ty)[i].name \in state[Table_items(ty)[i].cat]

\* C7: when the create batch of the previous syncdb has been applied and the
\* registry has not changed since, syncdb returns an empty create batch and
\* an empty drop batch.
C7_Idempotent ==
    (last_sync.ran /\ last_sync.after.kind = "created")
        => (last_sync.create = <<>> /\ last_sync.drop = <<>>)

\* the case of C8: T alone is registered and the schema does not exist
C8_Case ==
    /\ last_sync.ran
    /\ last_sync.registry = <<T>>
    /\ last_sync.state.schemas = {}

\* C8 as stated: the create batch holds exactly 1 index creation.
C8_AsStated ==
    C8_Case =>
        /\ Count(last_sync.create, "CREATE SCHEMA") = 1
        /\ Count(last_sync.create, "CREATE SEQUENCE") = 1
        /\ Count(last_sync.create, "CREATE TABLE") = 2
        /\ Count(last_sync.create, "CREATE VIEW") = 1
        /\ Count(last_sync.create, "CREATE TRIGGER") \in {2, 3}
        /\ Count(last_sync.create, "CREATE INDEX") = 1
        /\ Count(last_sync.create, "ADD CONSTRAINT") = 2
        /\ last_sync.drop = <<>>

\* C8: with T alone registered (table t, two not-null attributes, one of them
\* indexed) and no schema, the create batch holds exactly 1 CREATE SCHEMA,
\* 1 sequence creation, 2 table creations (entity and t), 1 view creation,
\* 2 or 3 trigger creations, 3 index creations (the two of CREATE_TABLE and
\* the one of the indexed attribute) and 2 constraint creations, and the
\* drop batch is empty.
C8_CreateBatch ==
    C8_Case =>
        /\ Count(last_sync.create, "CREATE SCHEMA") = 1
        /\ Count(last_sync.create, "CREATE SEQUENCE") = 1
        /\ CountNamed(last_sync.create, "CREATE TABLE", ET) = 1
        /\ CountNamed(last_sync.create, "CREATE TABLE", T.db_table) = 1
        /\ Count(last_sync.create, "CREATE TABLE") = 2
        /\ Count(last_sync.create, "CREATE VIEW") = 1
        /\ Count(last_sync.create, "CREATE TRIGGER") \in {2, 3}
        /\ Count(last_sync.create, "CREATE INDEX") = 3
        /\ Count(last_sync.create, "ADD CONSTRAINT") = 2
        /\ last_sync.drop = <<>>

C8_Witness ==
    /\ C8_Case
    /\ Len(last_sync.create) > 0
    /\ last_sync.after.kind = "no"

\* the type was synced into the database and is not registered
Orphaned(ty) ==
    /\ last_sync.ran
    /\ \A i \in DOMAIN last_sync.registry :
          last_sync.registry[i].db_table # ty.db_table
    /\ Synced(ty, last_sync.state)

\* C9: for a type that was synced into the database and then unregistered,
\* the drop batch holds exactly one DROP TABLE of its table and exactly one
\* DROP VIEW of its view (and no other DROP TABLE or DROP VIEW when no other
\* table is in the schema), and the create batch is empty when nothing is
\* registered; a syncdb that follows the application of a drop batch
\* returns an empty drop batch.
C9_UnregisterThenSync ==
    /\ \A ty \in Types :
          Orphaned(ty) =>
            /\ CountNamed(last_sync.drop, "DROP TABLE", ty.db_table) = 1
            /\ CountNamed(last_sync.drop, "DROP VIEW", DBViewName(ty.db_table)) = 1
            /\ (last_sync.registry = <<>> => last_sync.create = <<>>)
            /\ (last_sync.state.tables = {ET, ty.db_table} =>
                  /\ Count(last_sync.drop, "DROP TABLE") = 1
                  /\ Count(last_sync.drop, "DROP VIEW") = 1)
    /\ (last_sync.ran /\ last_sync.after.kind = "dropped")
          => last_sync.drop = <<>>

\* T was dropped by the batch applied last, and syncdb ran again
C9_Witness ==
    /\ last_sync.ran
    /\ last_sync.after.kind = "dropped"
    /\ T.db_table \in last_sync.after.tables
    /\ last_sync.registry = <<>>
    /\ last_sync.state.tables = {ET}

\* the declared object is in the introspected state of its category
Present(it) == it.name \in last_sync.state[it.cat]

\* the drop batch has a statement for the object
DropCandidate(it) ==
    /\ it.cat # "triggers"
    /\ CountNamed(last_sync.drop, DROPS(it.cat, it.name, "").op, it.name) > 0

\* C10: for every registered type and every object it declares, the create
\* batch contains the object's creation SQL if and only if its name is
\* absent from the introspected state of its category; an object that is
\* present is not re-created and has no statement in the drop batch.
C10_CreateIffAbsent ==
    last_sync.ran =>
        \A i \in DOMAIN last_sync.registry :
            LET items == Table_items(last_sync.registry[i])
            IN  \A k \in DOMAIN items :
                    /\ ~ Present(items[k]) => Contains(last_sync.create, items[k].sql)
                    /\ Present(items[k]) =>
                          /\ \A n \in DOMAIN items[k].sql :
                                \A m \in DOMAIN last_sync.create :
                                    last_sync.create[m] # items[k].sql[n]
                          /\ ~ DropCandidate(items[k])

\* a syncdb that met a synced type and a type not yet created
C10_Witness ==
    /\ last_sync.ran
    /\ Len(last_sync.registry) = 2
    /\ Synced(last_sync.registry[1], last_sync.state)
    /\ \A k \in DOMAIN Table_items(last_sync.registry[2]) :
          ~ Present(Table_items(last_sync.registry[2])[k])
    /\ last_sync.create # <<>>

\* C11: no drop batch has a DROP of the entity table or of a trigger, and
\* every index it drops is named ju_idx__..., every constraint it drops
\* ju_validate__..., whatever the schema holds.
C11_DropsOnlySystemObjects ==
    \A i \in DOMAIN last_sync.drop :
        LET q == last_sync.drop[i]
        IN  /\ q.op \in {"DROP TABLE", "DROP VIEW", "DROP INDEX", "DROP CONSTRAINT"}
            /\ q.op = "DROP TABLE" => q.name # ET
            /\ q.op = "DROP INDEX" => startswith(q.name, "ju_idx__")
            /\ q.op = "DROP CONSTRAINT" => startswith(q.name, "ju_validate__")

\* the statements of the create batch that create an object of the class
CreatedFor(k) ==
    {i \in DOMAIN last_sync.create :
        \E j \in DOMAIN Table_items(k) :
            \E n \in DOMAIN Table_items(k)[j].sql :
                last_sync.create[i] = Table_items(k)[j].sql[n]}

DropRank(q) ==
    CASE q.op = "DROP CONSTRAINT" -> 1
      [] q.op = "DROP INDEX" -> 2
      [] q.op = "DROP VIEW" -> 3
      [] q.op = "DROP TABLE" -> 4

\* C13: in the drop batch every constraint drop precedes every index drop,
\* every index drop every view drop, and every view drop every table drop.
C13_DropOrder ==
    \A i, j \in DOMAIN last_sync.drop :
        i < j => DropRank(last_sync.drop[i]) <= DropRank(last_sync.drop[j])

\* a drop batch with statements of all four kinds
C13_Witness ==
    \A op \in {"DROP CONSTRAINT", "DROP INDEX", "DROP VIEW", "DROP TABLE"} :
        Count(last_sync.drop, op) > 0

\* the statements only INIT_SCHEMA has
SchemaOps == {"CREATE SCHEMA", "CREATE SEQUENCE"}

\* C14: the create batch holds the schema-creation SQL (CREATE SCHEMA, the
\* shared sequence, the entity table) if and only if the schema is absent from
\* the introspected state; with an empty registry and no schema it holds
\* exactly 1 CREATE SCHEMA, 1 CREATE SEQUENCE and 1 CREATE TABLE, no creation
\* of a view, trigger, index or constraint, and the drop batch is empty.
C14_SchemaSql ==
    last_sync.ran =>
        /\ SchemaName \notin last_sync.state.schemas =>
              /\ \A op \in SchemaOps : Count(last_sync.create, op) = 1
              /\ CountNamed(last_sync.create, "CREATE SCHEMA", SchemaName) = 1
              /\ CountNamed(last_sync.create, "CREATE TABLE", ET) = 1
        /\ SchemaName \in last_sync.state.schemas =>
              /\ \A op \in SchemaOps : Count(last_sync.create, op) = 0
              /\ CountNamed(last_sync.create, "CREATE TABLE", ET) = 0
        /\ (last_sync.registry = <<>> /\ SchemaName \notin last_sync.state.schemas) =>
              /\ Count(last_sync.create, "CREATE TABLE") = 1
              /\ \A op \in {"CREATE VIEW", "CREATE TRIGGER", "CREATE INDEX",
                            "ADD CONSTRAINT"} : Count(last_sync.create, op) = 0
              /\ last_sync.drop = <<>>

\* syncdb ran with an empty registry after the schema was dropped
C14_Witness ==
    /\ last_sync.ran
    /\ last_sync.registry = <<>>
    /\ SchemaName \notin last_sync.state.schemas
    /\ cat.sequence
    /\ Count(last_sync.create, "CREATE SCHEMA") = 1

\* the class statement declares a table name the registry already holds
SameTable(d) ==
    d.tn_given /\ ~ d.skip_registry /\ d.db_table # "" /\ d.db_table # ET
               /\ Reserved \cap Keys(d) = {} /\ d.db_table \in registered

\* C15: registering a type whose table name is already in the registry, by a
\* call of register or by declaring a second type with the same table name,
\* raises the already-registered error and leaves the registry unchanged: the
\* name still maps to the first type.
C15_AlreadyRegistered ==
    [][ /\ \A k \in classes :
              ((register(k) \/ register_raises(k))
                  /\ k.db_table # NoAttr /\ k.db_table \in registered)
              => (raised' = "AlreadyRegistered" /\ registry' = registry)
        /\ \A d \in Decls :
              (Declare(d) /\ SameTable(d))
              => (raised' = "AlreadyRegistered" /\ registry' = registry
                  /\ classes' = classes)
        /\ raised' = "AlreadyRegistered" => registry' = registry ]_vars

\* the last call raised the already-registered error and the first type is
\* still the one registered for the table
C15_Witness ==
    /\ raised = "AlreadyRegistered"
    /\ \E i \in DOMAIN registry :
          registry[i].name = "T" /\ registry[i].db_table = "t"
    /\ Len(registry) = 1

\* the class statement has a reserved member or the reserved table name
ReservedUse(d) == Reserved \cap Keys(d) # {} \/ (d.tn_given /\ d.db_table = ET)

\* C17: declaring a type with a member named attrs, _created, _updated or
\* _deleted, or with the table name entity, raises AttributeError and adds no
\* type to the registry.
C17_ReservedNames ==
    [][ \A d \in Decls :
           (Declare(d) /\ ReservedUse(d))
           => (raised' = "AttributeError" /\ registry' = registry
               /\ classes' = classes) ]_vars

\* a class statement raised AttributeError before any class existed
C17_Witness ==
    /\ raised = "AttributeError"
    /\ classes = {}
    /\ registry = <<>>

\* C16: after any sequence of register and unregister calls, tables() yields
\* exactly the types registered and not unregistered since, each once, in the
\* order of their latest registration: a registration appends the type, an
\* unregistration removes that type and no other, and unregistering a type
\* that is not registered changes nothing.
C16_TablesOrder ==
    [][ /\ \A k \in classes :
              register(k) =>
                  /\ \A i \in DOMAIN tables : tables[i].name # k.name
                  /\ tables' = Append(tables, k)
        /\ \A k \in classes :
              (unregister(k) \/ unregister_raises(k)) =>
                  tables' = SelectSeq(tables, LAMBDA t : t.name # k.name)
        /\ \A d \in Decls :
              Declare(d) =>
                  tables' = IF raised' = "none" /\ d.tn_given /\ ~ d.skip_registry
                            THEN Append(tables, Meta_class(d))
                            ELSE tables
        /\ \A i, j \in DOMAIN tables' :
              i # j => tables'[i].name # tables'[j].name ]_vars

\* the class statement that built a class
DeclOf(k) == CHOOSE d \in Decls : d.name = k.name

\* C18: immediately after a type is declared it is in the registry if and
\* only if it declares a table name and does not set skip_registry, and it is
\* there once; a type without a table name has neither db_table nor db_view
\* (both are set together), and register raises AttributeError for it.
C18_RegisteredAtDeclaration ==
    [][ /\ \A d \in Decls :
              (Declare(d) /\ raised' = "none") =>
                  LET k == Meta_class(d)
                  IN  /\ (\E i \in DOMAIN registry' : registry'[i].name = k.name)
                             <=> (d.tn_given /\ ~ d.skip_registry)
                      /\ Cardinality({i \in DOMAIN registry' :
                                         registry'[i].name = k.name}) <= 1
                      /\ ~ d.tn_given => k.db_table = NoAttr
        /\ \A k \in classes :
              (~ DeclOf(k).tn_given /\ (register(k) \/ register_raises(k)))
              => (raised' = "AttributeError" /\ registry' = registry) ]_vars

\* the slugs a class iterates
Slugs(k) == {k.attrs[i].slug : i \in DOMAIN k.attrs}

\* C19: for every entity type, iterating attrs yields each declared or
\* inherited attribute exactly once, in strictly increasing ordinal order,
\* and the attributes of a subtype include those of its parent.
C19_AttrsOrder ==
    \A k \in classes :
        LET d == DeclOf(k)
        IN  /\ \A i, j \in DOMAIN k.attrs :
                  i < j => /\ k.attrs[i].idx < k.attrs[j].idx
                           /\ k.attrs[i].slug # k.attrs[j].slug
            /\ \A i \in DOMAIN d.attrs : d.attrs[i].slug \in Slugs(k)
            /\ \A b \in classes :
                  b.name = d.base =>
                      /\ Slugs(b) \subseteq Slugs(k)
                      /\ Slugs(k) \subseteq
                            Slugs(b) \cup {d.attrs[i].slug : i \in DOMAIN d.attrs}
            /\ d.base = "" => Cardinality(Slugs(k)) = Len(d.attrs)

\* a subtype with an attribute of its own and two inherited ones, and a
\* subtype that declares a slug of its parent again
C19_Witness ==
    /\ \E k \in classes : k.name = "K" /\ Len(k.attrs) = 3
    /\ \E k \in classes : k.name = "O" /\ Len(k.attrs) = 2

\* the position of an Attr object in the order of construction
Position(x) == CHOOSE i \in DOMAIN made : made[i] = x.v

\* C20: every Attr receives its ordinal once, at construction; the ordinals
\* of distinct Attr objects are pairwise distinct and strictly increase in the
\* order of construction; Attr objects compare by ordinal, and comparing an
\* Attr with something that is no Attr raises RuntimeError.
C20_Ordinals ==
    [][ /\ Len(made') >= Len(made)
        /\ \A i \in DOMAIN made : made'[i] = made[i]
        /\ \A i, j \in DOMAIN made' : i < j => made'[i] < made'[j]
        /\ \A self \in Attrs, other \in Attrs \cup NonAttrs :
              Compare(self, other) =>
                  IF other.isAttr
                  THEN /\ compared'.raises = "none"
                       /\ (compared'.value < 0) <=> (Position(self) < Position(other))
                       /\ (compared'.value = 0) <=> (self = other)
                       /\ (compared'.value > 0) <=> (Position(self) > Position(other))
                  ELSE compared'.raises = "RuntimeError" ]_vars

\* an Attr was compared with a later one and with something that is no Attr
C20_Witness ==
    /\ Len(made) >= 3
    /\ compared.self.isAttr
    /\ compared.raises = "RuntimeError"
    /\ ~ compared.other.isAttr

\* C21: constructing an attribute with an unknown keyword option raises an
\* error instead of silently ignoring the option.
C21_UnknownOption ==
    [][ \A kwargs \in Kwargs :
           (Attr__init__(kwargs) /\ DOMAIN kwargs \ KwKnown # {})
           => ret'.raises # "none" ]_vars

\* the entity_id and every declared attribute are equal in both
SameValues(a, b) ==
    /\ a.entity_id = b.entity_id
    /\ \A x \in attrs(a.type) : getattr(a, x) = getattr(b, x)

\* the call fn is the one that returns in this step
Returned(fn) == Pending(fn) /\ ret'.raises # "pending"

RECURSIVE Required(_)
Required(name) ==
    LET d == StmtOf(name)
        own == {d.attrs[i].slug : i \in {j \in DOMAIN d.attrs : d.attrs[j].db_not_null}}
    IN  IF d.base = "" THEN own ELSE own \cup Required(d.base)

\* C23: for every entity e with all required attributes set,
\* deserialize(e.serialize()) is an instance of the same type that is equal
\* to e: same entity_id and same values of the declared attributes.
C23_RoundTrip ==
    [][ LET e == ret.args[1]
        IN  (Returned("deserialize") /\ Required(e.type) \subseteq DOMAIN e.doc)
            => /\ ret'.raises = "none"
               /\ ret'.value.type = e.type
               /\ AbstractEntity__eq__(ret'.value, e).value ]_vars

\* C24: save() issues an insert when entity_id is None and an update
\* otherwise, returns a new instance built from the returned row, and never
\* changes the entity_id or the document of the instance it was called on.
C24_Save ==
    [][ Returned("save") =>
           LET e == ret.args[1]
               fetched == ret.args[2]
               v == ret'.value
           IN  /\ v.query.sql = IF e.entity_id = None THEN "INSERT" ELSE "UPDATE"
               /\ v.self.entity_id = e.entity_id
               /\ v.self.doc = e.doc
               /\ ret'.raises = "none" =>
                     /\ ~ v.is_self
                     /\ v.result.type = e.type
                     /\ v.result.entity_id = fetched[1].entity_id
                     /\ v.result.doc = fetched[1].doc ]_vars

\* an update was saved and the row that came back holds another document
\* than the instance
C24_Witness ==
    /\ ret.fn = "save" /\ ret.raises = "none"
    /\ ret.args[1].entity_id # None
    /\ ret.value.query.sql = "UPDATE"
    /\ ret.value.result.doc # ret.args[1].doc

\* the delete of entity e is committed and it happened no later than now()
\* of session s
Deleted(s, e) ==
    \E r \in rows : /\ r.eid = e
                    /\ r.xmin = NoSession
                    /\ r.doc.deleted # NoStamp
                    /\ r.doc.deleted <= tnow[s]

\* a committed row of entity e is live in the view of session s
LiveFor(s, tab, e) == \E v \in LiveView(s, tab) : v.eid = e

\* C25: by_id(cursor, entity_id) fails with DoesNotExist whenever no live row
\* has that entity_id, in particular for every entity_id at any time after
\* that entity was deleted, and returns an instance with that entity_id
\* whenever a live row exists.
C25_ById ==
    [][ \A s \in Sessions, tab \in ByIdTabs, e \in ByIdEntities :
           ById(s, tab, e) =>
               /\ ~ LiveFor(s, tab, e) => ret'.raises = "DoesNotExist"
               /\ Deleted(s, e) => ret'.raises = "DoesNotExist"
               /\ LiveFor(s, tab, e) => (ret'.raises = "none" /\ ret'.value = <<e>>) ]_vars

\* C26: by_id with one id builds WHERE "entity_id" = %s with the 1-tuple of
\* the id as parameters; with two or more ids it builds WHERE "entity_id" IN
\* %s with one parameter, the tuple of all ids in call order; delete does the
\* same with the ids of its entities.
C26_IdPolicy ==
    [][ LET ids == IF ret.fn = "qbuilder.by_id" THEN ret.args[2]
                   ELSE [i \in DOMAIN filter(ret.args[2]) |->
                            filter(ret.args[2])[i].entity_id]
            v == ret'.value
        IN  (Returned("qbuilder.by_id") \/ Returned("qbuilder.delete"))
            /\ ret'.raises = "none"
            => /\ v.q.target = "t__live"
               /\ Len(ids) = 1 =>
                     /\ v.q.where = "WHERE \"entity_id\" = %s"
                     /\ v.params = <<ids[1]>>
               /\ Len(ids) >= 2 =>
                     /\ v.q.where = "WHERE \"entity_id\" IN %s"
                     /\ Len(v.params) = 1
                     /\ v.params[1] = Tuple(ids) ]_vars

\* delete returned the query for two entities, called with them and None
C26_Witness ==
    /\ ret.fn = "qbuilder.delete" /\ ret.raises = "none"
    /\ Len(ret.args[2]) = 3 /\ ret.value.q.where = "WHERE \"entity_id\" IN %s"
    /\ ret.args[2][1].entity_id # ret.args[2][2].entity_id

\* the call has an argument the builders must reject
NoIds == Len(ret.args[2]) = 0 \/ \E i \in DOMAIN ret.args[2] : ~ bool(ret.args[2][i])
NoEntities ==
    \/ \A i \in DOMAIN ret.args[2] : ret.args[2][i] = NoEntity
    \/ \E i \in DOMAIN ret.args[2] :
          ret.args[2][i] # NoEntity /\ ret.args[2][i].entity_id = None
KnownOps == {"eq", "ne", "in", "lt", "gt", "lte", "gte"}
UnknownOpAt(k) == Visited(ret.args[2])[k].op \notin KnownOps

\* by_id, delete and the entity methods reject what the claim lists, and the
\* cursor is not called
RejectsIds ==
    /\ Returned("qbuilder.by_id") /\ NoIds => ret'.raises = "ValueError"
    /\ Returned("qbuilder.delete") /\ NoEntities => ret'.raises = "ValueError"
    /\ Returned("by_id") /\ ~ bool(ret.args[2])
          => ret'.raises = "ValueError" /\ ret'.value.executed = <<>>
    /\ Returned("delete") /\ ret.args[1].entity_id = None
          => ret'.raises = "ValueError" /\ ret'.value.executed = <<>>

\* C27: the builders raise ValueError for by_id with no ids or a falsy id,
\* for delete with no entities or an entity without entity_id, and for
\* select with an unknown operator when no triplet before the unknown
\* operator names an undeclared attribute; Entity.by_id and Entity.delete
\* then do not call the cursor.
C27_Rejects ==
    [][ /\ RejectsIds
        /\ Returned("qbuilder.select")
           /\ (\E k \in DOMAIN Visited(ret.args[2]) :
                  /\ UnknownOpAt(k)
                  /\ \A j \in 1..(k - 1) :
                        Visited(ret.args[2])[j].attr \in attrs("T"))
           => ret'.raises = "ValueError" ]_vars

\* C27 as stated: select with an unknown operator raises ValueError
C27_AsStated ==
    [][ /\ RejectsIds
        /\ Returned("qbuilder.select")
           /\ (\E k \in DOMAIN Visited(ret.args[2]) : UnknownOpAt(k))
           => ret'.raises = "ValueError" ]_vars

\* delete of an entity without entity_id raised and nothing reached the
\* cursor
C27_Witness ==
    /\ ret.fn = "delete" /\ ret.raises = "ValueError"
    /\ ret.args[1].entity_id = None /\ ret.value.executed = <<>>

\* the number of parameters of the conditions before the i-th
RECURSIVE Before(_, _)
Before(conds, i) ==
    IF i <= 1 THEN 0
    ELSE Before(conds, i - 1)
         + (IF conds[i - 1].kind = "dict" THEN 1 ELSE Len(conds[i - 1].triplets))

\* C28: the WHERE clause of select is the OR of one parenthesised group per
\* condition in call order; a dict gives one containment predicate and the
\* dict as one parameter; a sequence of triplets gives the AND of one
\* comparison per triplet, cast with the db_cast of its attribute, and one
\* parameter per triplet in order; without conditions there is no WHERE
\* clause and no parameter of a condition.
C28_Where ==
    [][ LET conds == ret.args[2]
            w == ret'.value.q.where
            params == ret'.value.params
        IN  Returned("qbuilder.select") /\ ret'.raises = "none"
            => /\ Len(params) = Before(conds, Len(conds) + 1)
                                + Cardinality(DOMAIN ret.args[3])
               /\ conds = <<>> => w.join = "" /\ w.groups = <<>>
               /\ conds # <<>> =>
                     /\ w.join = "OR"
                     /\ Len(w.groups) = Len(conds)
                     /\ \A i \in DOMAIN conds :
                           IF conds[i].kind = "dict"
                           THEN /\ w.groups[i].join = "@>"
                                /\ params[Before(conds, i) + 1] = conds[i].dict
                           ELSE /\ w.groups[i].join = "AND"
                                /\ Len(w.groups[i].block) = Len(conds[i].triplets)
                                /\ \A j \in DOMAIN conds[i].triplets :
                                      LET t == conds[i].triplets[j]
                                          c == w.groups[i].block[j]
                                      IN  /\ c.attr = t.attr
                                          /\ c.cast = db_cast(t.attr)
                                          /\ c.op = OPS[t.op]
                                          /\ params[Before(conds, i) + j] = t.value
      ]_vars

\* select returned the query of a sequence of two different triplets
\* followed by a dict, with a limit and an offset
C28_Witness ==
    /\ ret.fn = "qbuilder.select" /\ ret.raises = "none"
    /\ Len(ret.args[2]) = 2
    /\ ret.args[2][1].kind = "tuple" /\ Len(ret.args[2][1].triplets) = 2
    /\ ret.args[2][1].triplets[1] # ret.args[2][1].triplets[2]
    /\ ret.args[2][2].kind = "dict"
    /\ Len(ret.value.params) = 5

\* C29: a constraint is declared for an attribute exactly when it is
\* not-null; an int or JuArrow attribute gets the non-null and the
\* non-negativity check, a text attribute the non-null and the minimum-length
\* check, any other the non-null check alone; an attribute that may be null
\* gets none.
C29_Constraints ==
    [][ LET as == ret.args[1].attrs
            cs == ret'.value
        IN  Returned("Table.constraints")
            => /\ \A i \in DOMAIN as :
                     as[i].db_not_null <=> \E j \in DOMAIN cs : cs[j].attr = as[i].slug
               /\ \A j \in DOMAIN cs :
                     /\ \E i \in DOMAIN as : as[i].slug = cs[j].attr /\ as[i].db_not_null
                     /\ \A k \in DOMAIN cs : cs[k].attr = cs[j].attr => k = j
                     /\ cs[j].checks =
                           CASE value_type[cs[j].attr] \in {"int", "JuArrow"}
                                   -> <<"IS NOT NULL", "::BIGINT >= 0">>
                             [] value_type[cs[j].attr] \in {"str", "unicode"}
                                   -> <<"IS NOT NULL", "length > minlen">>
                             [] OTHER -> <<"IS NOT NULL">> ]_vars

\* the constraints of a class with a not-null JuArrow attribute, a text
\* attribute that may be null and a not-null attribute of another type
C29_Witness ==
    /\ ret.fn = "Table.constraints" /\ ret.raises = "none"
    /\ Len(ret.args[1].attrs) = 3 /\ Len(ret.value) = 2
    /\ \E i \in 1..3 : ret.args[1].attrs[i] = Attr("b", FALSE, FALSE)
    /\ {ret.value[1].attr, ret.value[2].attr} = {"k", "c"}

\* C30: when the scope of a transaction is left normally its statements are
\* committed, when it is left by an exception they are rolled back, and on
\* every exit path, a failing commit or rollback included, the transaction
\* is closed and its connection is unlocked in the pool, or closed when it
\* was made with autoclose.
C30_Scope ==
    [][ Pending("with") /\ ret'.fn = "__exit__"
        => LET self == ret'.value.self
           IN  /\ ~ ret'.value.exc /\ ret'.raises = "none"
                     => self.pg_conn.work \in {"none", "committed"}
               /\ ret'.value.exc /\ ret'.raises = "none"
                     => self.pg_conn.work \in {"none", "rolled back"}
               /\ self.closed
               /\ self.pg_conn.kind = "pooled" => self.pg_conn.state = "unlocked"
               /\ self.pg_conn.kind = "autoclose" => self.pg_conn.state = "closed"
      ]_vars

\* C32: after any sequence of push, next and pop, next() returns an item
\* that is stored and was unlocked, and locks it, or raises IndexError when
\* the ring is empty or every stored item is locked, on repeated calls too;
\* push of a locked item unlocks it and returns True; the locked items are
\* always stored items.
C32_LockRing ==
    [][ /\ RingNext =>
              IF ring.store = {} \/ ring.locks = ring.store
              THEN ret'.raises = "IndexError"
              ELSE /\ ret'.raises = "none"
                   /\ ret'.value[1] \in ring.store \ ring.locks
                   /\ ret'.value[1] \in ring'.locks
        /\ \A item \in Items :
              RingPush(item) /\ item \in ring.locks
                  => ret'.value = <<TRUE>> /\ item \notin ring'.locks
        /\ ring'.locks \subseteq ring'.store ]_vars


\* C31: the first transaction() of the pool warms it up with exactly
\* pool_size connections, no later one makes pooled connections and the ring
\* never stores more than pool_size; with every pooled connection locked,
\* transaction() returns a transaction on a new connection outside the ring,
\* which is closed and still outside the ring when that transaction closes;
\* after close() the ring is empty and transaction() raises PgPoolClosedError.
C31_Pool ==
    [][ /\ PoolTransaction /\ ~pool.closed =>
              /\ ret'.raises = "none"
              /\ pool'.made = PoolSize
              /\ ~pool.warmed_up => ring'.store = 1..PoolSize /\ pool.made = 0
              /\ Cardinality(ring'.store) <= PoolSize
              /\ pool.warmed_up /\ ring.locks = ring.store =>
                    /\ ret'.value[1] \notin ring'.store
                    /\ pool.conns[ret'.value[1]] = "none"
                    /\ pool'.conns[ret'.value[1]] = "open"
                    /\ pool'.txs = Append(pool.txs, ret'.value[1])
        /\ \A i \in DOMAIN pool.txs :
              PoolTxClose(i) /\ pool.txs[i] > PoolSize =>
                 /\ ret'.raises = "none"
                 /\ pool'.conns[pool.txs[i]] = "closed"
                 /\ pool.txs[i] \notin ring'.store
        /\ ring'.store \subseteq 1..PoolSize
        /\ PoolClose => ring'.store = {} /\ pool'.closed
        /\ pool.closed =>
              /\ ring'.store = {}
              /\ PoolTransaction => ret'.raises = "PgPoolClosedError" /\ pool'.txs = pool.txs
      ]_vars

\* the exhausted pool has handed out a connection of its own making, that
\* transaction has closed, and the pool was closed afterwards
C31_Witness ==
    /\ pool.closed
    /\ pool.auto > 0
    /\ \E c \in Conns : c > PoolSize /\ pool.conns[c] = "closed"
    /\ ret.fn = "transaction"
    /\ ret.raises = "PgPoolClosedError"


\* the open transactions on connection c: those transaction() has returned
\* or is returning, less those whose close() has unlocked the connection
Attached(c) ==
    Cardinality({i \in DOMAIN pool.txs : pool.txs[i] = c})
    + Cardinality({t \in Threads : thread[t].pc \in InClose \cup {"return"} /\ thread[t].conn = c})

\* C35: under every interleaving of the threads' transaction() calls and
\* transaction closes, a pooled connection has at most one open transaction,
\* and it is locked in the ring for as long as it has one.
C35_Exclusive ==
    \A c \in 1..PoolSize :
        /\ Attached(c) <= 1
        /\ Attached(c) = 1 => c \in ring.locks

\* both pooled connections are handed out while a thread closes a
\* transaction and another is inside transaction()
C35_Witness ==
    /\ \A c \in 1..PoolSize : Attached(c) = 1
    /\ \E t \in Threads : thread[t].pc = "unlock"
    /\ \E t \in Threads : thread[t].pc = "return" /\ thread[t].conn \in 1..PoolSize

\* C36: while the pool is open, every transaction() call of every thread
\* returns a transaction and raises nothing, whatever the other threads do
\* in the close() of their transactions.
C36_Returns ==
    [][ \A t \in Threads :
            ~pool.closed /\ thread[t].pc \in InTransaction /\ thread'[t].pc = "idle"
                => ret'.fn = "transaction" /\ ret'.raises = "none" ]_vars


\* the lock objects that hold the key: acquired, not released since, and
\* the ttl of that acquisition not over
Holders == {l \in Locks : client.locks[l].held}

\* C33: while a lock object holds the key, acquire() of any other lock
\* object that does not wait raises AlreadyLocked and leaves the stored lock
\* as it is, and after any step at most one lock object holds the key.
C33_OneHolder ==
    [][ /\ \A l \in Locks, with \in BOOLEAN :
              LockAcquire(l, with) /\ ~wait(l) /\ Holders \ {l} # {} =>
                 /\ ret'.raises = "AlreadyLocked"
                 /\ redis'.lock = redis.lock
                 /\ client'.locks[l].pc = "out"
        /\ Cardinality({l \in Locks : client'.locks[l].held}) <= 1
        /\ \A l \in Locks : client'.locks[l].held => redis'.lock.value = _value(l) ]_vars

\* a lock object holds the key and the acquire() of another one has raised
C33_Witness ==
    /\ Holders # {}
    /\ ret.fn = "acquire"
    /\ ret.raises = "AlreadyLocked"
    /\ ret.args[1] \notin Holders
    /\ ~wait(ret.args[1])

\* C37: release() deletes the key if it stores the token of this lock
\* object and leaves the key as it is if not, so the lock of another client
\* that acquired the key after this one's expired stays; the with block
\* releases this lock object's key when left, with or without an exception.
C37_Release ==
    [][ /\ \A l \in Locks :
              LockRelease(l) \/ (\E exc \in BOOLEAN : LockExit(l, exc)) =>
                 /\ redis'.lock = IF redis.lock.value = _value(l) THEN NoLock ELSE redis.lock
                 /\ redis'.lock.value # _value(l)
        /\ \A l \in Locks, exc \in BOOLEAN :
              LockExit(l, exc) => ret'.raises = "none" /\ client'.locks[l].pc = "out" ]_vars

\* a with block whose key expired is left by an exception while another
\* client holds the key, which stays
C37_Witness ==
    /\ ret.fn = "__exit__"
    /\ ret.args[2]
    /\ Holders # {}
    /\ ret.args[1] \notin Holders
    /\ redis.lock.value # 0

\* C34: once stop() was called, consume() ends, whatever the producers put
\* on the queues.
C34_Stops == client.queue.stopped ~> client.queue.pc = "return"


\* C39: the statement that drops the orphaned constraint the DDL generator
\* named for table T and slug S alters table T, for every table name and
\* slug, those with a double underscore included.
C39_DropAlters ==
    [][ Returned("_to_drop") =>
           /\ Len(ret'.value) = 1
           /\ ret'.value[1].op = "DROP CONSTRAINT"
           /\ ret'.value[1].on = ret.args[1] ]_vars


\* C40: when class C declares the table name of a registered class D and
\* opted out of the registry with skip_registry, is_registered(C) is false
\* and unregister(C) leaves D registered.
C40_OwnRegistration ==
    [][ \A C, D \in classes :
            ( /\ C.name # D.name
              /\ DeclOf(C).tn_given /\ DeclOf(D).tn_given
              /\ C.db_table = D.db_table
              /\ DeclOf(C).skip_registry
              /\ \E i \in DOMAIN registry : registry[i].name = D.name
              /\ \A i \in DOMAIN registry : registry[i].name # C.name )
            => /\ ~ is_registered(C)
               /\ unregister(C) => \E i \in DOMAIN registry' : registry'[i].name = D.name
      ]_vars


\* the committed rows of entity e
Committed(e) == UNION {{v \in BaseTable(tab) : v.eid = e} : tab \in Tabs}

\* entity e was deleted: a committed row of it carries a _deleted stamp and
\* none of its committed rows is live now
Gone(e) ==
    /\ \E v \in Committed(e) : v.doc.deleted # NoStamp
    /\ \A v \in Committed(e) : ~ CREATE_VIEW(v, clock)

\* C38: once an entity is deleted no step of an update or a delete through
\* the live view makes a row of it live again, adds a base-table row for it
\* or changes one of its rows.
C38_NeverResurrected ==
    [][ \A e \in 1..MaxEntities :
           Gone(e) => Gone(e)' /\ Committed(e)' = Committed(e) ]_vars

====
